---- MODULE Spec2Model ----
(***************************************************************************)
(* A model of the OAuth credential broker of claude-code-router:           *)
(*   - the token store (auth.json, one JSON document keyed by provider),   *)
(*   - the refresh coordinator (getOAuthAccessToken / getValidToken with   *)
(*     the refreshingTokens dedup map),                                    *)
(*   - the authorization-code flow (startAuthCodeFlow, the callback        *)
(*     server, cleanupFlow, startAuthCodeLogin).                           *)
(*                                                                         *)
(* Every `await` of the source is a suspension point: the effect of the    *)
(* awaited I/O call (a file read, a file write, a listen, a fetch) is one  *)
(* step and the continuation that runs after it is a later step, so any    *)
(* other task may run in between.  Code between two awaits is one step.    *)
(***************************************************************************)
EXTENDS Integers, Sequences, FiniteSets, TLC

\* ------------------------------------------------------------------ bounds
NumCallers == 2          \* concurrent getAccessToken / getValidToken calls
NumStoreOps == 2         \* direct token store calls
NumLogins == 2           \* startAuthCodeLogin calls
MaxTicks == 1            \* clock ticks of TickMs the model lets pass
MaxStringLen == 2        \* longest refresh token / project id, in characters

\* ------------------------------------------------------- program constants
ExpiryBufferMs == 60000  \* isTokenExpired's default bufferMs

TickMs == 30 * 1000
Providers == {"codex", "gemini", "copilot", "antigravity"}   \* keys of auth.json
RefreshProviders == {"codex"}        \* the providers the callers ask a token for
Callers == 1..NumCallers
Logins == 1..NumLogins
FlowProviders == {"codex"}           \* the providers the logins are started for

\* ------------------------------------------------------------ token values
\* Strings of the program are numbers here; 0 is the empty / absent string.
NoToken == [type |-> "none", access |-> 0, refresh |-> 0, expires |-> 0,
            accountId |-> 0, key |-> 0]

OAuthToken(access, refresh, expires, accountId) ==
    [type |-> "oauth", access |-> access, refresh |-> refresh,
     expires |-> expires, accountId |-> accountId, key |-> 0]

ApiKeyToken(key) ==
    [type |-> "api", access |-> 0, refresh |-> 0, expires |-> 0,
     accountId |-> 0, key |-> key]

VARIABLES
    now,               \* Date.now(), in ms
    authStore,         \* the parsed content of auth.json: provider -> token
    refreshingTokens,  \* the dedup map: provider -> index in refreshes, 0 = absent
    refreshes,         \* every refresh promise created so far
    callers,           \* the getOAuthAccessToken / getValidToken calls
    activeFlows,       \* the active-flow map: provider -> index in flows, 0 = absent
    flows,             \* every callback server startAuthCodeFlow created so far
    logins,            \* the startAuthCodeLogin calls and their waitForAuth
    foreignListener,   \* an unrelated process holds the callback port
    device,            \* the device-code login: pollForDeviceToken in waitForAuth
    storeOps,          \* direct calls of getToken, saveToken, deleteToken, listTokens
    authFile,          \* auth.json on disk: directory, existence, mode, parsability
    copilotCalls,      \* the getCopilotAccessToken calls
    antigravityCalls   \* the getAntigravityAccessToken calls

refreshVars == <<refreshingTokens, refreshes, callers>>
flowVars == <<activeFlows, flows, logins, foreignListener>>
deviceVars == <<device>>
storeVars == <<storeOps, authFile>>
providerVars == <<copilotCalls, antigravityCalls>>
vars == <<now, authStore, refreshingTokens, refreshes, callers,
          activeFlows, flows, logins, foreignListener, device, storeOps,
          authFile, copilotCalls, antigravityCalls>>

\* ------------------------------------------------------------- token store
\* getToken: store[provider] || null
getToken(store, provider) == store[provider]

saveToken_KeepsFirst(store, provider, token) ==
    IF store[provider] # NoToken THEN store ELSE [store EXCEPT ![provider] = token]

\* saveToken's write: the whole document the task read, with one key replaced
saveToken(store, provider, token) == [store EXCEPT ![provider] = token]

isTokenExpired_Strict(token, nowMs) ==
    IF token.type # "oauth" THEN FALSE
    ELSE nowMs > token.expires - ExpiryBufferMs

isTokenExpired(token, nowMs) ==
    IF token.type # "oauth" THEN FALSE
    ELSE nowMs >= token.expires - ExpiryBufferMs

calculateExpiry(nowMs, expires_in) == nowMs + expires_in * 1000

\* -------------------------------------------------------- token endpoint
\* What the provider's token endpoint can answer to a refresh request.
RefreshFailureKinds == {"http_status", "oauth_error", "network", "timeout"}
ExpiresInChoices == {3600}
IssuedAccess(a) == 10 + a
IssuedRefresh(a) == 20 + a
RefreshResponses(a) ==
    [access_token : {IssuedAccess(a)},
     refresh_token : {0, IssuedRefresh(a)},
     expires_in : ExpiresInChoices]

NoResponse == [access_token |-> 0, refresh_token |-> 0, expires_in |-> 0]

\* updatedToken = { ...token, access, refresh: refreshed.refresh_token ||
\* token.refresh, expires }
updatedToken_DropsRefresh(token, refreshed, nowMs) ==
    [token EXCEPT !.access = refreshed.access_token,
                  !.refresh = refreshed.refresh_token,
                  !.expires = calculateExpiry(nowMs, refreshed.expires_in)]

updatedToken(token, refreshed, nowMs) ==
    [token EXCEPT !.access = refreshed.access_token,
                  !.refresh = IF refreshed.refresh_token # 0
                              THEN refreshed.refresh_token ELSE token.refresh,
                  !.expires = calculateExpiry(nowMs, refreshed.expires_in)]

\* ----------------------------------------------------------------- results
NoResult == [kind |-> "none", value |-> 0, error |-> "none"]
TokenResult(v) == [kind |-> "token", value |-> v, error |-> "none"]
NullResult == [kind |-> "null", value |-> 0, error |-> "none"]
ErrorResult(e) == [kind |-> "error", value |-> 0, error |-> e]

\* cli: where the CLI process that delegated this login to the server stands
NoCli == [pc |-> "none", start |-> 0]

IdleLogin ==
    [pc |-> "idle", cli |-> NoCli, provider |-> "codex", flow |-> 0, authUrl |-> <<0, 0>>,
     reused |-> FALSE, raced |-> FALSE, error |-> "none",
     code |-> 0, pkce |-> 0, verifier |-> 0, tokens |-> <<>>, token |-> NoToken,
     store |-> <<>>]

NoError == [kind |-> "none", code |-> "none", description |-> 0]

IdleDevice ==
    [pc |-> "idle", intervalMs |-> 0, deadline |-> 0, waited |-> 0,
     responses |-> <<>>, lastData |-> <<>>, error |-> NoError,
     token |-> NoToken, store |-> <<>>]

\* auth.json as the file system sees it.  authStore is what the file holds;
\* parsable tells whether JSON.parse accepts it.
OwnerOnly == "0o600"
WeakMode == "0o644"
FileState(dir, exists, mode, parsable) ==
    [dir |-> dir, exists |-> exists, mode |-> mode, parsable |-> parsable]
NoFile(dir) == FileState(dir, FALSE, "none", FALSE)
SecureFile == FileState(TRUE, TRUE, OwnerOnly, TRUE)

StoreOps == 1..NumStoreOps
IdleStoreOp ==
    [pc |-> "idle", op |-> "none", provider |-> "codex", token |-> NoToken,
     store |-> <<>>, result |-> <<>>, raised |-> FALSE,
     found |-> <<>>]   \* found: the file state the call's readStore met

\* a getCopilotAccessToken call that has not started
IdleCopilotCall ==
    [pc |-> "idle", token |-> NoToken, requested |-> FALSE,
     authorization |-> 0,   \* the GitHub token the request carries
     response |-> <<>>,
     updated |-> NoToken, store |-> <<>>, result |-> NoResult, concurrent |-> {}]

\* getAntigravityAccessToken and getAntigravityProjectId, not started
IdleAntigravityCall ==
    [access |-> [pc |-> "idle", token |-> NoToken, parts |-> <<>>,
                 newTokens |-> <<>>, contacted |-> <<>>, discovered |-> <<>>,
                 updated |-> NoToken, updatedAt |-> 0, store |-> <<>>,
                 result |-> NoResult],
     projectId |-> [pc |-> "idle", token |-> NoToken, result |-> <<>>]]

IdleCaller ==
    [pc |-> "idle", provider |-> "codex", throwing |-> TRUE, token |-> NoToken,
     attempt |-> 0, result |-> NoResult, concurrent |-> {}]

Active(c) == callers[c].pc \notin {"idle", "done"}

InitialExpires == {TickMs, 3 * TickMs}
InitialTokens ==
    {NoToken, ApiKeyToken(9)}
        \cup {OAuthToken(1, r, e, 5) : r \in {0, 7}, e \in InitialExpires}

InitRefresh ==
    /\ now = 0
    /\ authStore \in {[p \in Providers |->
                        IF p \in RefreshProviders THEN t ELSE NoToken] :
                     t \in InitialTokens}
    /\ refreshingTokens = [p \in Providers |-> 0]
    /\ refreshes = <<>>
    /\ callers = [c \in Callers |-> IdleCaller]
    /\ activeFlows = [p \in Providers |-> 0]
    /\ flows = <<>>
    /\ logins = [l \in Logins |-> IdleLogin]
    /\ foreignListener = FALSE
    /\ device = IdleDevice
    /\ storeOps = [t \in StoreOps |-> IdleStoreOp]
    /\ authFile = SecureFile
    /\ copilotCalls = [c \in Callers |-> IdleCopilotCall]
    /\ antigravityCalls = IdleAntigravityCall

\* ----------------------------------------------------- refresh coordinator
Return(c, result) ==
    /\ callers' = [callers EXCEPT ![c] = [@ EXCEPT !.pc = "done", !.result = result]]
    /\ UNCHANGED <<refreshingTokens, refreshes>>

\* getOAuthAccessToken / getValidToken up to `await getToken(providerName)`:
\* the call starts and the store file is read.  The callers are
\* interchangeable, so caller c + 1 is never started before caller c.
CallGetAccessToken(c, p, throwing) ==
    /\ callers[c].pc = "idle"
    /\ \A d \in Callers : d < c => callers[d].pc # "idle"
    /\ callers' = [callers EXCEPT ![c] =
          [@ EXCEPT !.pc = "getToken", !.provider = p, !.throwing = throwing,
                    !.token = getToken(authStore, p),
                    !.concurrent = {d \in Callers : Active(d)}]]
    /\ UNCHANGED <<now, authStore, refreshingTokens, refreshes, flowVars, deviceVars, storeVars, providerVars>>

\* refreshAndSaveOAuthToken up to its return: join the pending promise of the
\* provider, or create one (the refresh request is sent) and register it.
refreshAndSaveOAuthToken(c) ==
    LET p == callers[c].provider
        existing == refreshingTokens[p]
        a == Len(refreshes) + 1
    IN  IF existing # 0
        THEN /\ callers' = [callers EXCEPT ![c] =
                    [@ EXCEPT !.pc = "awaitRefresh", !.attempt = existing]]
             /\ UNCHANGED <<refreshingTokens, refreshes>>
        ELSE /\ refreshes' = Append(refreshes,
                    [provider |-> p, token |-> callers[c].token,
                     status |-> "fetching", updated |-> NoToken,
                     store |-> authStore, resp |-> NoResponse,
                     respondedAt |-> 0])
             /\ refreshingTokens' = [refreshingTokens EXCEPT ![p] = a]
             /\ callers' = [callers EXCEPT ![c] =
                    [@ EXCEPT !.pc = "awaitRefresh", !.attempt = a]]

\* What getOAuthAccessToken does with the token it read, up to the refresh
DriveRefresh == [kind |-> "refresh", value |-> 0, error |-> "none"]

getOAuthAccessToken_Decision_RefreshesAnyway(token, nowMs) ==
    IF token.type # "oauth" THEN ErrorResult("NotAuthenticated")
    ELSE IF ~isTokenExpired(token, nowMs) THEN TokenResult(token.access)
    ELSE DriveRefresh

getOAuthAccessToken_Decision(token, nowMs) ==
    IF token.type # "oauth" THEN ErrorResult("NotAuthenticated")
    ELSE IF ~isTokenExpired(token, nowMs) THEN TokenResult(token.access)
    ELSE IF token.refresh = 0 THEN ErrorResult("Expired")
    ELSE DriveRefresh

\* What getValidToken does with the token it read, up to the refresh
getValidToken_Decision(token, nowMs) ==
    IF token.type = "none" THEN NullResult
    ELSE IF token.type = "api" THEN TokenResult(token.key)
    ELSE IF ~isTokenExpired(token, nowMs) THEN TokenResult(token.access)
    ELSE IF token.refresh = 0 THEN NullResult
    ELSE DriveRefresh

\* getOAuthAccessToken after `await getToken`
getOAuthAccessToken(c) ==
    LET d == getOAuthAccessToken_Decision(callers[c].token, now)
    IN  IF d = DriveRefresh THEN refreshAndSaveOAuthToken(c) ELSE Return(c, d)

\* getValidToken after `await getToken`
getValidToken(c) ==
    LET d == getValidToken_Decision(callers[c].token, now)
    IN  IF d = DriveRefresh THEN refreshAndSaveOAuthToken(c) ELSE Return(c, d)

ResumeAfterGetToken(c) ==
    /\ callers[c].pc = "getToken"
    /\ IF callers[c].throwing THEN getOAuthAccessToken(c) ELSE getValidToken(c)
    /\ UNCHANGED <<now, authStore, flowVars, deviceVars, storeVars, providerVars>>

\* The token endpoint answers the refresh request with a token; the promise
\* body builds updatedToken and calls saveToken, which reads the store.
RefreshResponds(a, resp) ==
    /\ a \in 1..Len(refreshes)
    /\ refreshes[a].status = "fetching"
    /\ refreshes' = [refreshes EXCEPT ![a] =
            [@ EXCEPT !.status = "saving",
                      !.updated = updatedToken(refreshes[a].token, resp, now),
                      !.store = authStore,
                      !.resp = resp, !.respondedAt = now]]
    /\ UNCHANGED <<now, authStore, refreshingTokens, callers, flowVars, deviceVars, storeVars, providerVars>>

\* saveToken's writeStore: the document read before, with the new token
SaveRefreshedToken(a) ==
    /\ a \in 1..Len(refreshes)
    /\ refreshes[a].status = "saving"
    /\ authStore' = saveToken(refreshes[a].store, refreshes[a].provider,
                              refreshes[a].updated)
    /\ refreshes' = [refreshes EXCEPT ![a] = [@ EXCEPT !.status = "saved"]]
    /\ UNCHANGED <<now, refreshingTokens, callers, flowVars, deviceVars, storeVars, providerVars>>

\* .finally(() => refreshingTokens.delete(providerName))
RefreshFinally_KeepEntry(p) == refreshingTokens

RefreshFinally(p) == [refreshingTokens EXCEPT ![p] = 0]

\* the promise body returned: finally runs and the promise is fulfilled
RefreshFulfilled(a) ==
    /\ a \in 1..Len(refreshes)
    /\ refreshes[a].status = "saved"
    /\ refreshes' = [refreshes EXCEPT ![a] = [@ EXCEPT !.status = "fulfilled"]]
    /\ refreshingTokens' = RefreshFinally(refreshes[a].provider)
    /\ UNCHANGED <<now, authStore, callers, flowVars, deviceVars, storeVars, providerVars>>

\* What a failed refresh request leaves in the store: postOAuthForm throws
\* before saveToken is reached.
StoreAfterFailedRefresh_Clears(a) ==
    [authStore EXCEPT ![refreshes[a].provider] = NoToken]

StoreAfterFailedRefresh(a) == authStore

\* postOAuthForm throws (non-success status, body-level error, network error
\* or the AbortSignal timeout): finally runs and the promise is rejected.
RefreshFails(a, kind) ==
    /\ a \in 1..Len(refreshes)
    /\ refreshes[a].status = "fetching"
    /\ refreshes' = [refreshes EXCEPT ![a] =
            [@ EXCEPT !.status = "rejected"]]
    /\ refreshingTokens' = RefreshFinally(refreshes[a].provider)
    /\ authStore' = StoreAfterFailedRefresh(a)
    /\ UNCHANGED <<now, callers, flowVars, deviceVars, storeVars, providerVars>>

\* `await refreshAndSaveOAuthToken(...)` returns or throws in the caller
ReturnFromRefresh(c) ==
    /\ callers[c].pc = "awaitRefresh"
    /\ LET r == refreshes[callers[c].attempt]
       IN /\ r.status \in {"fulfilled", "rejected"}
          /\ IF r.status = "fulfilled"
             THEN Return(c, TokenResult(r.updated.access))
             ELSE IF callers[c].throwing
                  THEN Return(c, ErrorResult("RefreshFailed"))
                  ELSE Return(c, NullResult)
    /\ UNCHANGED <<now, authStore, flowVars, deviceVars, storeVars, providerVars>>

Tick ==
    /\ now < MaxTicks * TickMs
    /\ now' = now + TickMs
    /\ UNCHANGED <<authStore, refreshVars, flowVars, deviceVars, storeVars, providerVars>>

NextRefresh ==
    \/ \E c \in Callers, p \in RefreshProviders, throwing \in BOOLEAN :
          CallGetAccessToken(c, p, throwing)
    \/ \E c \in Callers : ResumeAfterGetToken(c)
    \/ \E a \in Callers : \E resp \in RefreshResponses(a) : RefreshResponds(a, resp)
    \/ \E a \in Callers : SaveRefreshedToken(a)
    \/ \E a \in Callers : RefreshFulfilled(a)
    \/ \E a \in Callers, kind \in RefreshFailureKinds : RefreshFails(a, kind)
    \/ \E c \in Callers : ReturnFromRefresh(c)
    \/ Tick

SpecRefresh == InitRefresh /\ [][NextRefresh]_vars

\* ================================================ authorization-code flow
FLOW_TIMEOUT_MS == 5 * 60 * 1000
NoTimer == -1

\* generatePKCE: the challenge is a digest of the verifier
Challenge(verifier) == verifier + 100

\* the authorization URL carries the state and the code challenge
AuthUrl(f) == <<flows[f].state, Challenge(flows[f].pkce)>>

NewFlow(p, l, bound) ==
    [provider |-> p, state |-> l, pkce |-> l,
     server |-> IF bound THEN "listening" ELSE "failed",
     promise |-> "pending", code |-> 0, reason |-> "none",
     timeout |-> NoTimer, timedOut |-> FALSE, mismatchSeen |-> FALSE,
     late |-> FALSE]   \* late: a callback arrived after the promise was settled

InitFlow ==
    /\ now = 0
    /\ authStore = [p \in Providers |-> NoToken]
    /\ refreshingTokens = [p \in Providers |-> 0]
    /\ refreshes = <<>>
    /\ callers = [c \in Callers |-> IdleCaller]
    /\ activeFlows = [p \in Providers |-> 0]
    /\ flows = <<>>
    /\ logins = [l \in Logins |-> IdleLogin]
    /\ foreignListener \in BOOLEAN
    /\ device = IdleDevice
    /\ storeOps = [t \in StoreOps |-> IdleStoreOp]
    /\ authFile = SecureFile
    /\ copilotCalls = [c \in Callers |-> IdleCopilotCall]
    /\ antigravityCalls = IdleAntigravityCall

\* cleanupFlow(providerName), as a function of the two tables
cleanupFlow_LeavesServerOpen(fl, af, p) ==
    [flows |-> IF af[p] = 0 THEN fl
               ELSE [fl EXCEPT ![af[p]] = [@ EXCEPT !.timeout = NoTimer]],
     activeFlows |-> [af EXCEPT ![p] = 0]]

cleanupFlow(fl, af, p) ==
    [flows |-> IF af[p] = 0 THEN fl
               ELSE [fl EXCEPT ![af[p]] =
                        [@ EXCEPT !.timeout = NoTimer, !.server = "closed"]],
     activeFlows |-> [af EXCEPT ![p] = 0]]

\* server.listen(port): the bind succeeds iff nothing listens on the port
PortFree(fl, p) ==
    /\ ~foreignListener
    /\ \A f \in 1..Len(fl) : ~(fl[f].provider = p /\ fl[f].server = "listening")

\* `existing && existing.server.listening`
ReusesFlow_Never(p) == FALSE

ReusesFlow(p) ==
    activeFlows[p] # 0 /\ flows[activeFlows[p]].server = "listening"

\* `exchangeCodeForToken(config, code, activePkce.codeVerifier)`: own is the
\* pair the call generated, active the pair startAuthCodeFlow returned
codeVerifierSent_Own(own, active) == own

codeVerifierSent(own, active) == active

\* waitForAuth after `await waitForCallback()` returned or threw: the finally
\* of waitForCallback has run, and on a code exchangeCodeForToken sends the
\* token request with the code and the verifier of the flow.
AfterCallback(lg, fl, f) ==
    IF fl[f].promise = "resolved"
    THEN [lg EXCEPT !.pc = "exchanging", !.code = fl[f].code,
                    !.verifier = codeVerifierSent(lg.pkce, fl[f].pkce)]
    ELSE [lg EXCEPT !.pc = "failed", !.error = fl[f].reason]

Awaits(lg, l, f) == lg[l].pc = "awaitCallback" /\ lg[l].flow = f

\* The continuations of `await callbackPromise`: they run as soon as the
\* promise is settled, one after the other, before any other task.
ResumeAwaiters(fl, af, lg, f) ==
    IF fl[f].promise = "pending" \/ ~\E l \in Logins : Awaits(lg, l, f)
    THEN [flows |-> fl, activeFlows |-> af, logins |-> lg]
    ELSE LET c == cleanupFlow(fl, af, fl[f].provider)
         IN [flows |-> c.flows, activeFlows |-> c.activeFlows,
             logins |-> [l \in Logins |->
                            IF Awaits(lg, l, f) THEN AfterCallback(lg[l], fl, f)
                            ELSE lg[l]]]

\* startAuthCodeLogin -> startAuthCodeFlow up to its first await (or, on the
\* reuse path, up to `await callbackPromise` in waitForAuth, which every
\* caller of the repository calls as soon as the start returned).
StartAuthCodeLogin(l, p) ==
    /\ logins[l].pc = "idle"
    /\ \A d \in Logins : d < l => logins[d].pc # "idle"
    /\ IF ReusesFlow(p)
       THEN LET f == activeFlows[p]
                fl == [flows EXCEPT ![f] = [@ EXCEPT !.timeout = now + FLOW_TIMEOUT_MS]]
                lg == [logins EXCEPT ![l] =
                         [@ EXCEPT !.pc = "awaitCallback", !.provider = p,
                                   !.pkce = l,
                                   !.flow = f, !.authUrl = AuthUrl(f),
                                   !.reused = TRUE]]
                r == ResumeAwaiters(fl, activeFlows, lg, f)
            IN /\ flows' = r.flows
               /\ activeFlows' = r.activeFlows
               /\ logins' = r.logins
       ELSE LET c == cleanupFlow(flows, activeFlows, p)
                fl == Append(c.flows, NewFlow(p, l, PortFree(c.flows, p)))
            IN /\ flows' = fl
               /\ activeFlows' = c.activeFlows
               /\ logins' = [logins EXCEPT ![l] =
                     [@ EXCEPT !.pc = "listening", !.provider = p,
                               !.pkce = l, !.flow = Len(fl),
                               !.raced = \E d \in Logins :
                                   /\ logins[d].pc = "listening"
                                   /\ logins[d].provider = p]]
    /\ UNCHANGED <<now, authStore, refreshVars, deviceVars, storeVars, providerVars, foreignListener>>

\* startAuthCodeFlow after `await new Promise(... server.listen ...)`:
\* EADDRINUSE is thrown, or the flow is registered with its idle timeout and
\* returned, and waitForAuth awaits the callback.
ListenResumes(l) ==
    /\ logins[l].pc = "listening"
    /\ LET f == logins[l].flow
           p == logins[l].provider
       IN IF flows[f].server = "failed"
          THEN /\ logins' = [logins EXCEPT ![l] =
                     [@ EXCEPT !.pc = "failed", !.error = "PortInUse"]]
               /\ UNCHANGED <<flows, activeFlows>>
          ELSE LET fl == [flows EXCEPT ![f] = [@ EXCEPT !.timeout = now + FLOW_TIMEOUT_MS]]
                   af == [activeFlows EXCEPT ![p] = f]
                   lg == [logins EXCEPT ![l] =
                            [@ EXCEPT !.pc = "awaitCallback", !.authUrl = AuthUrl(f)]]
                   r == ResumeAwaiters(fl, af, lg, f)
               IN /\ flows' = r.flows
                  /\ activeFlows' = r.activeFlows
                  /\ logins' = r.logins
    /\ UNCHANGED <<now, authStore, refreshVars, deviceVars, storeVars, providerVars, foreignListener>>

\* The request handler's decision for a GET on the callback path.
CallbackOutcome_NoStateCheck(error, returnedState, code, expected) ==
    IF error # 0 THEN [settle |-> "rejected", reason |-> "oauth_error", code |-> 0]
    ELSE IF code = 0
    THEN [settle |-> "rejected", reason |-> "missing_code", code |-> 0]
    ELSE [settle |-> "resolved", reason |-> "none", code |-> code]

CallbackOutcome_CodeFirst(error, returnedState, code, expected) ==
    IF code # 0 /\ returnedState = expected
    THEN [settle |-> "resolved", reason |-> "none", code |-> code]
    ELSE IF error # 0
    THEN [settle |-> "rejected", reason |-> "oauth_error", code |-> 0]
    ELSE IF returnedState # expected
    THEN [settle |-> "rejected", reason |-> "state_mismatch", code |-> 0]
    ELSE [settle |-> "rejected", reason |-> "missing_code", code |-> 0]

CallbackOutcome(error, returnedState, code, expected) ==
    IF error # 0 THEN [settle |-> "rejected", reason |-> "oauth_error", code |-> 0]
    ELSE IF returnedState # expected
    THEN [settle |-> "rejected", reason |-> "state_mismatch", code |-> 0]
    ELSE IF code = 0
    THEN [settle |-> "rejected", reason |-> "missing_code", code |-> 0]
    ELSE [settle |-> "resolved", reason |-> "none", code |-> code]

\* The request handler as a whole: any other path is answered 404 and
\* neither resolve nor reject is called.
RequestOutcome(onCallbackPath, error, returnedState, code, expected) ==
    IF onCallbackPath THEN CallbackOutcome(error, returnedState, code, expected)
    ELSE [settle |-> "pending", reason |-> "none", code |-> 0]

\* the authorization URL (and with it the random state) has left the process
UrlHandedOut(f) ==
    \E l \in Logins : logins[l].flow = f /\ logins[l].pc \notin {"idle", "listening"}

\* resolveCallback / rejectCallback on callbackPromise: a promise keeps its
\* first settlement
settle_Again(flow, o) ==
    [flow EXCEPT !.promise = o.settle, !.reason = o.reason, !.code = o.code,
                 !.late = @ \/ flow.promise # "pending"]

settle(flow, o) ==
    IF flow.promise = "pending"
    THEN [flow EXCEPT !.promise = o.settle, !.reason = o.reason, !.code = o.code]
    ELSE [flow EXCEPT !.late = TRUE]

CallbackStates == {0, 99} \cup Logins
CallbackCodes == {0, 77}
CallbackErrors == {0, 1}

\* An HTTP GET on the callback path reaches a listening callback server.  A
\* request carrying the flow's own state can only come from its URL.
Callback(f, error, returnedState, code) ==
    /\ f \in 1..Len(flows)
    /\ flows[f].server = "listening"
    /\ returnedState = flows[f].state => UrlHandedOut(f)
    /\ LET o == CallbackOutcome(error, returnedState, code, flows[f].state)
           seen == flows[f].mismatchSeen \/ returnedState # flows[f].state
           fl == [flows EXCEPT ![f] =
                    [settle(@, o) EXCEPT !.mismatchSeen = seen]]
           r == ResumeAwaiters(fl, activeFlows, logins, f)
       IN /\ flows' = r.flows
          /\ activeFlows' = r.activeFlows
          /\ logins' = r.logins
    /\ UNCHANGED <<now, authStore, refreshVars, deviceVars, storeVars, providerVars, foreignListener>>

\* An HTTP request on another path reaches a listening callback server.
NotFound(f) ==
    /\ f \in 1..Len(flows)
    /\ flows[f].server = "listening"
    /\ LET o == RequestOutcome(FALSE, 0, 0, 0, flows[f].state)
       IN flows' = IF o.settle = "pending" \/ flows[f].promise # "pending"
                   THEN flows
                   ELSE [flows EXCEPT ![f] =
                           [@ EXCEPT !.promise = o.settle, !.reason = o.reason,
                                     !.code = o.code]]
    /\ UNCHANGED <<now, authStore, refreshVars, deviceVars, storeVars, providerVars, activeFlows, logins, foreignListener>>

\* setTimeout(() => cleanupFlow(config.name), FLOW_TIMEOUT_MS) fires
TimeoutFires(p) ==
    /\ activeFlows[p] # 0
    /\ flows[activeFlows[p]].timeout # NoTimer
    /\ now >= flows[activeFlows[p]].timeout
    /\ LET f == activeFlows[p]
           c == cleanupFlow(flows, activeFlows, p)
       IN /\ flows' = [c.flows EXCEPT ![f] = [@ EXCEPT !.timedOut = TRUE]]
          /\ activeFlows' = c.activeFlows
    /\ UNCHANGED <<now, authStore, refreshVars, deviceVars, storeVars, providerVars, logins, foreignListener>>

ExchangedAccess(l) == 30 + l
ExchangedRefresh(l) == 40 + l
ExchangeResponses(l) ==
    [access_token : {ExchangedAccess(l)},
     refresh_token : {ExchangedRefresh(l)},
     expires_in : {3600}]

\* exchangeCodeForToken returns: oauthToken is built up to the hook
ExchangeResponds(l, resp) ==
    /\ logins[l].pc = "exchanging"
    /\ logins' = [logins EXCEPT ![l] =
          [@ EXCEPT !.pc = "hook", !.tokens = resp,
                    !.token = OAuthToken(resp.access_token, resp.refresh_token,
                                         calculateExpiry(now, resp.expires_in), 0)]]
    /\ UNCHANGED <<now, authStore, refreshVars, deviceVars, storeVars, providerVars, activeFlows, flows, foreignListener>>

ExchangeFails_SavesAnyway(l) ==
    /\ logins[l].pc = "exchanging"
    /\ logins' = [logins EXCEPT ![l] =
          [@ EXCEPT !.pc = "saving", !.token = OAuthToken(0, 0, 0, 0),
                    !.store = authStore]]
    /\ UNCHANGED <<now, authStore, refreshVars, deviceVars, storeVars, providerVars, activeFlows, flows, foreignListener>>

\* exchangeCodeForToken throws: non-success status or a body-level error
ExchangeFails(l) ==
    /\ logins[l].pc = "exchanging"
    /\ logins' = [logins EXCEPT ![l] = [@ EXCEPT !.pc = "failed", !.error = "ExchangeFailed"]]
    /\ UNCHANGED <<now, authStore, refreshVars, deviceVars, storeVars, providerVars, activeFlows, flows, foreignListener>>

HookAccountIds == {5}

\* onTokensReceived returned its partial token; saveToken reads the store
HookReturns(l, accountId) ==
    /\ logins[l].pc = "hook"
    /\ logins' = [logins EXCEPT ![l] =
          [@ EXCEPT !.pc = "saving",
                    !.token = [@ EXCEPT !.accountId = accountId],
                    !.store = authStore]]
    /\ UNCHANGED <<now, authStore, refreshVars, deviceVars, storeVars, providerVars, activeFlows, flows, foreignListener>>

\* onTokensReceived threw
HookThrows(l) ==
    /\ logins[l].pc = "hook"
    /\ logins' = [logins EXCEPT ![l] = [@ EXCEPT !.pc = "failed", !.error = "HookFailed"]]
    /\ UNCHANGED <<now, authStore, refreshVars, deviceVars, storeVars, providerVars, activeFlows, flows, foreignListener>>

\* saveToken's writeStore in waitForAuth; waitForAuth returns the token
SaveLoginToken(l) ==
    /\ logins[l].pc = "saving"
    /\ authStore' = saveToken(logins[l].store, logins[l].provider, logins[l].token)
    /\ logins' = [logins EXCEPT ![l] = [@ EXCEPT !.pc = "done"]]
    /\ UNCHANGED <<now, refreshVars, deviceVars, storeVars, providerVars, activeFlows, flows, foreignListener>>

MaxFlowTicks == 1

FlowTick ==
    /\ now < MaxFlowTicks * FLOW_TIMEOUT_MS
    /\ now' = now + FLOW_TIMEOUT_MS
    /\ UNCHANGED <<authStore, refreshVars, flowVars, deviceVars, storeVars, providerVars>>

NextFlow ==
    \/ \E l \in Logins, p \in FlowProviders : StartAuthCodeLogin(l, p)
    \/ \E l \in Logins : ListenResumes(l)
    \/ \E f \in 1..NumLogins, e \in CallbackErrors, st \in CallbackStates,
          code \in CallbackCodes : Callback(f, e, st, code)
    \/ \E f \in 1..NumLogins : NotFound(f)
    \/ \E p \in FlowProviders : TimeoutFires(p)
    \/ \E l \in Logins : \E resp \in ExchangeResponses(l) : ExchangeResponds(l, resp)
    \/ \E l \in Logins : ExchangeFails(l)
    \/ \E l \in Logins, a \in HookAccountIds : HookReturns(l, a)
    \/ \E l \in Logins : HookThrows(l)
    \/ \E l \in Logins : SaveLoginToken(l)
    \/ FlowTick

SpecFlow == InitFlow /\ [][NextFlow]_vars

\* ==================================================== device-code polling
DefaultInterval == 5          \* pollForDeviceToken's default interval, seconds
SlowDownDelayMs == 5000       \* the fixed extra delay after slow_down
MaxExpiresIn == 25            \* the longest expires_in a device code is given
LatencyMs == 1000             \* how long a poll request may take

DeviceIntervals == {DefaultInterval, 2 * DefaultInterval}
DeviceExpiresIn == {10, MaxExpiresIn}
FetchLatencies == {0, LatencyMs}
GithubToken == 50
CopilotApiToken == 60
CopilotExpiresAt == 3600      \* expires_at of the Copilot token, seconds

\* What the token endpoint can answer to a poll request.
DeviceResponse(error, description, access) ==
    [error |-> error, error_description |-> description, access_token |-> access]

TerminalErrors == {"expired_token", "access_denied", "invalid_grant"}
DeviceResponses ==
    {DeviceResponse("none", 0, GithubToken), DeviceResponse("none", 0, 0),
     DeviceResponse("authorization_pending", 0, 0),
     DeviceResponse("slow_down", 0, 0)}
    \cup {DeviceResponse(e, d, 0) : e \in TerminalErrors, d \in {0, 3}}

\* `while (Date.now() < deadline)`, and the throw after the loop
LoopTest_Inclusive(d, nowMs) ==
    IF nowMs <= d.deadline THEN [d EXCEPT !.pc = "sleeping"]
    ELSE [d EXCEPT !.pc = "failed",
                   !.error = [kind |-> "timeout", code |-> "none", description |-> 0]]

LoopTest(d, nowMs) ==
    IF nowMs < d.deadline THEN [d EXCEPT !.pc = "sleeping"]
    ELSE [d EXCEPT !.pc = "failed",
                   !.error = [kind |-> "timeout", code |-> "none", description |-> 0]]

\* The Error thrown for a data.error that ends the polling
PollError(data) ==
    IF data.error = "expired_token"
    THEN [kind |-> "device_code_expired", code |-> "none", description |-> 0]
    ELSE IF data.error = "access_denied"
    THEN [kind |-> "authorization_denied", code |-> "none", description |-> 0]
    ELSE [kind |-> "oauth_error", code |-> data.error,
          description |-> data.error_description]

\* waitForAuth -> pollForDeviceToken up to the first sleep
StartDevicePoll(interval, expiresIn) ==
    /\ device.pc = "idle"
    /\ device' = LoopTest([device EXCEPT !.intervalMs = interval * 1000,
                                         !.deadline = now + expiresIn * 1000],
                          now)
    /\ UNCHANGED <<now, authStore, refreshVars, flowVars, storeVars, providerVars>>

\* setTimeout(resolve, pollIntervalMs) fires: the poll request is sent
SleepEnds ==
    /\ device.pc = "sleeping"
    /\ now' = now + device.intervalMs
    /\ device' = [device EXCEPT !.pc = "fetching",
                                !.waited = @ + device.intervalMs]
    /\ UNCHANGED <<authStore, refreshVars, flowVars, storeVars, providerVars>>

\* waitForAuth after pollForDeviceToken returned: the GitHub token is kept as
\* access and refresh value and the Copilot token request is sent
DeviceTokenReceived(d, data) ==
    [d EXCEPT !.pc = "copilotToken",
              !.token = OAuthToken(data.access_token, data.access_token, 0, 0)]

\* pollForDeviceToken after `await response.json()`
AfterPollResponse_SlowDownFails(d, data, nowMs) ==
    IF data.error = "authorization_pending" THEN LoopTest(d, nowMs)
    ELSE IF data.error # "none"
    THEN [d EXCEPT !.pc = "failed", !.error = PollError(data)]
    ELSE IF data.access_token # 0 THEN DeviceTokenReceived(d, data)
    ELSE LoopTest(d, nowMs)

AfterPollResponse(d, data, nowMs) ==
    IF data.error = "authorization_pending" THEN LoopTest(d, nowMs)
    ELSE IF data.error = "slow_down" THEN [d EXCEPT !.pc = "slowDown"]
    ELSE IF data.error # "none"
    THEN [d EXCEPT !.pc = "failed", !.error = PollError(data)]
    ELSE IF data.access_token # 0 THEN DeviceTokenReceived(d, data)
    ELSE LoopTest(d, nowMs)

\* the token endpoint answers the poll request
PollResponds(data, latency) ==
    /\ device.pc = "fetching"
    /\ now' = now + latency
    /\ device' = AfterPollResponse(
                    [device EXCEPT !.lastData = data, !.responses =
                        Append(@, IF data.error # "none" THEN data.error
                                  ELSE IF data.access_token # 0 THEN "token"
                                  ELSE "empty")],
                    data, now + latency)
    /\ UNCHANGED <<authStore, refreshVars, flowVars, storeVars, providerVars>>

\* setTimeout(resolve, 5000) after slow_down fires; `continue`
SlowDownEnds ==
    /\ device.pc = "slowDown"
    /\ now' = now + SlowDownDelayMs
    /\ device' = LoopTest([device EXCEPT !.waited = @ + SlowDownDelayMs],
                          now + SlowDownDelayMs)
    /\ UNCHANGED <<authStore, refreshVars, flowVars, storeVars, providerVars>>

\* getCopilotApiToken returns; saveToken reads the store
CopilotTokenResponds ==
    /\ device.pc = "copilotToken"
    /\ device' = [device EXCEPT !.pc = "saving",
                     !.token = [@ EXCEPT !.access = CopilotApiToken,
                                         !.expires = CopilotExpiresAt * 1000],
                     !.store = authStore]
    /\ UNCHANGED <<now, authStore, refreshVars, flowVars, storeVars, providerVars>>

\* getCopilotApiToken throws on a non-success status
CopilotTokenFails ==
    /\ device.pc = "copilotToken"
    /\ device' = [device EXCEPT !.pc = "failed",
                     !.error = [kind |-> "copilot_token", code |-> "none",
                                description |-> 0]]
    /\ UNCHANGED <<now, authStore, refreshVars, flowVars, storeVars, providerVars>>

\* saveToken("copilot", oauthToken) writes; waitForAuth returns
SaveDeviceToken ==
    /\ device.pc = "saving"
    /\ authStore' = saveToken(device.store, "copilot", device.token)
    /\ device' = [device EXCEPT !.pc = "done"]
    /\ UNCHANGED <<now, refreshVars, flowVars, storeVars, providerVars>>

InitPoll ==
    /\ now = 0
    /\ authStore = [p \in Providers |-> NoToken]
    /\ refreshingTokens = [p \in Providers |-> 0]
    /\ refreshes = <<>>
    /\ callers = [c \in Callers |-> IdleCaller]
    /\ activeFlows = [p \in Providers |-> 0]
    /\ flows = <<>>
    /\ logins = [l \in Logins |-> IdleLogin]
    /\ foreignListener = FALSE
    /\ device = IdleDevice
    /\ storeOps = [t \in StoreOps |-> IdleStoreOp]
    /\ authFile = SecureFile
    /\ copilotCalls = [c \in Callers |-> IdleCopilotCall]
    /\ antigravityCalls = IdleAntigravityCall

NextPoll ==
    \/ \E i \in DeviceIntervals, e \in DeviceExpiresIn : StartDevicePoll(i, e)
    \/ SleepEnds
    \/ \E data \in DeviceResponses, latency \in FetchLatencies :
          PollResponds(data, latency)
    \/ SlowDownEnds
    \/ CopilotTokenResponds
    \/ CopilotTokenFails
    \/ SaveDeviceToken

SpecPoll == InitPoll /\ [][NextPoll]_vars

\* Timers fire and every request is answered.
SpecPollFair ==
    /\ SpecPoll
    /\ WF_vars(SleepEnds)
    /\ WF_vars(\E data \in DeviceResponses, latency \in FetchLatencies :
                  PollResponds(data, latency))
    /\ WF_vars(SlowDownEnds)
    /\ WF_vars(CopilotTokenResponds)
    /\ WF_vars(SaveDeviceToken)

\* A token endpoint that may stay silent: timers and file writes are bound to
\* happen, a response to the fetch of pollForDeviceToken (no signal, no timeout
\* option) and of getCopilotApiToken is not.
SpecPollSilent ==
    /\ SpecPoll
    /\ WF_vars(SleepEnds)
    /\ WF_vars(SlowDownEnds)
    /\ WF_vars(SaveDeviceToken)

\* ================================================ Copilot service token
\* getCopilotAccessToken (providers/copilot.ts): no shared promise, no map of
\* refreshes in flight; every call that finds the service token expired sends
\* its own request.
CopilotBufferMs == 60000

\* the service token the endpoint issues to the request of call c
IssuedServiceToken(c) == CopilotApiToken + c
CopilotTokenResponses(c) ==
    {[token |-> IssuedServiceToken(c), expires_at |-> CopilotExpiresAt]}

\* updatedToken = {...token, access: copilotToken.token,
\*                 expires: copilotToken.expires_at * 1000}
copilotUpdatedToken_ReplacesRefresh(token, resp) ==
    [token EXCEPT !.access = resp.token, !.refresh = resp.token,
                  !.expires = resp.expires_at * 1000]

copilotUpdatedToken(token, resp) ==
    [token EXCEPT !.access = resp.token, !.expires = resp.expires_at * 1000]

ActiveCopilot(c) == copilotCalls[c].pc \notin {"idle", "done"}

\* getCopilotAccessToken() up to `await getToken("copilot")`
CallGetCopilotAccessToken(c) ==
    /\ copilotCalls[c].pc = "idle"
    /\ \A d \in Callers : d < c => copilotCalls[d].pc # "idle"
    /\ copilotCalls' = [d \in Callers |->
          IF d = c
          THEN [copilotCalls[c] EXCEPT
                   !.pc = "getToken",
                   !.concurrent = {e \in Callers : ActiveCopilot(e)}]
          ELSE IF ActiveCopilot(d)
          THEN [copilotCalls[d] EXCEPT !.concurrent = @ \cup {c}]
          ELSE copilotCalls[d]]
    /\ UNCHANGED <<now, authStore, refreshVars, flowVars, deviceVars, storeVars,
                   antigravityCalls>>

\* after getToken: not authenticated, cached service token, or the request of
\* getCopilotApiToken(token.refresh) is sent
CopilotAfterGetToken(c) ==
    /\ copilotCalls[c].pc = "getToken"
    /\ LET token == getToken(authStore, "copilot")
       IN copilotCalls' = [copilotCalls EXCEPT ![c] =
             IF token = NoToken \/ token.type # "oauth"
             THEN [@ EXCEPT !.pc = "done", !.token = token,
                            !.result = ErrorResult("NotAuthenticated")]
             ELSE IF now < token.expires - CopilotBufferMs
             THEN [@ EXCEPT !.pc = "done", !.token = token,
                            !.result = TokenResult(token.access)]
             ELSE [@ EXCEPT !.pc = "fetching", !.token = token,
                            !.requested = TRUE,
                            !.authorization = token.refresh]]
    /\ UNCHANGED <<now, authStore, refreshVars, flowVars, deviceVars, storeVars,
                   antigravityCalls>>

\* the service-token endpoint answers; saveToken reads the store
CopilotRefreshResponds(c, resp) ==
    /\ copilotCalls[c].pc = "fetching"
    /\ copilotCalls' = [copilotCalls EXCEPT ![c] =
          [@ EXCEPT !.pc = "saving", !.response = resp,
                    !.updated = copilotUpdatedToken(copilotCalls[c].token, resp),
                    !.store = authStore]]
    /\ UNCHANGED <<now, authStore, refreshVars, flowVars, deviceVars, storeVars,
                   antigravityCalls>>

\* getCopilotApiToken throws: the call rejects with the re-login message
CopilotRefreshFails(c) ==
    /\ copilotCalls[c].pc = "fetching"
    /\ copilotCalls' = [copilotCalls EXCEPT ![c] =
          [@ EXCEPT !.pc = "done", !.result = ErrorResult("RefreshFailed")]]
    /\ UNCHANGED <<now, authStore, refreshVars, flowVars, deviceVars, storeVars,
                   antigravityCalls>>

\* saveToken("copilot", updatedToken) writes; the call returns the new token
CopilotSave(c) ==
    /\ copilotCalls[c].pc = "saving"
    /\ authStore' = saveToken(copilotCalls[c].store, "copilot",
                              copilotCalls[c].updated)
    /\ copilotCalls' = [copilotCalls EXCEPT ![c] =
          [@ EXCEPT !.pc = "done",
                    !.result = TokenResult(copilotCalls[c].response.token)]]
    /\ UNCHANGED <<now, refreshVars, flowVars, deviceVars, storeVars,
                   antigravityCalls>>

\* the credential a device login leaves, with a service token that is still
\* valid or one that has run out
StoredCopilotTokens ==
    {OAuthToken(CopilotApiToken, GithubToken, e, 0) :
        e \in {TickMs, CopilotExpiresAt * 1000}}

InitCopilot ==
    /\ now = 0
    /\ authStore \in {[p \in Providers |-> IF p = "copilot" THEN t ELSE NoToken] :
                         t \in {NoToken} \cup StoredCopilotTokens}
    /\ refreshingTokens = [p \in Providers |-> 0]
    /\ refreshes = <<>>
    /\ callers = [c \in Callers |-> IdleCaller]
    /\ activeFlows = [p \in Providers |-> 0]
    /\ flows = <<>>
    /\ logins = [l \in Logins |-> IdleLogin]
    /\ foreignListener = FALSE
    /\ device = IdleDevice
    /\ storeOps = [t \in StoreOps |-> IdleStoreOp]
    /\ authFile = SecureFile
    /\ copilotCalls = [c \in Callers |-> IdleCopilotCall]
    /\ antigravityCalls = IdleAntigravityCall

NextCopilot ==
    \/ \E c \in Callers : CallGetCopilotAccessToken(c)
    \/ \E c \in Callers : CopilotAfterGetToken(c)
    \/ \E c \in Callers : \E resp \in CopilotTokenResponses(c) :
          CopilotRefreshResponds(c, resp)
    \/ \E c \in Callers : CopilotRefreshFails(c)
    \/ \E c \in Callers : CopilotSave(c)
    \* one device login whose code expires after the first poll
    \/ StartDevicePoll(DefaultInterval, DefaultInterval)
    \/ SleepEnds
    \/ \E data \in DeviceResponses : PollResponds(data, 0)
    \/ SlowDownEnds
    \/ CopilotTokenResponds
    \/ CopilotTokenFails
    \/ SaveDeviceToken

SpecCopilot == InitCopilot /\ [][NextCopilot]_vars

\* ============================================================ Antigravity
\* providers/antigravity.ts, lines 1-192.  Refresh tokens and project ids are
\* strings: sequences of characters, "|" among them.
Chars == {"a", "b", "|"}
Strings == UNION {[1..n -> Chars] : n \in 0..MaxStringLen}
HasPipe(str) == \E i \in 1..Len(str) : str[i] = "|"
Empty == <<>>

\* `${refreshToken}|${projectId}`
pack(refreshToken, projectId) == refreshToken \o <<"|">> \o projectId

\* String.prototype.split("|"): the segments between the pipes
RECURSIVE split(_)
split(str) ==
    IF ~HasPipe(str) THEN <<str>>
    ELSE LET i == CHOOSE k \in 1..Len(str) :
                     str[k] = "|" /\ \A j \in 1..(k - 1) : str[j] # "|"
         IN <<SubSeq(str, 1, i - 1)>> \o split(SubSeq(str, i + 1, Len(str)))

parseRefreshParts_FirstSegment(refresh) ==
    LET parts == split(refresh)
    IN [refreshToken |-> parts[1], projectId |-> parts[1]]

\* const [refreshToken = "", projectId = ""] = (refresh || "").split("|")
parseRefreshParts(refresh) ==
    LET parts == split(refresh)
    IN [refreshToken |-> parts[1],
        projectId |-> IF Len(parts) >= 2 THEN parts[2] ELSE Empty]

\* ANTIGRAVITY_LOAD_ENDPOINTS, in the order of the array
NumLoadEndpoints == 4
LoadEndpoints == 1..NumLoadEndpoints
DiscoveredIds == {<<"b">>}
\* what one loadCodeAssist request comes to: a non-success status, an
\* exception or the 10 s abort, a body without a usable project, or a project
DiscoveryOutcomes ==
    {[kind |-> k, id |-> Empty] : k \in {"status", "exception", "noProject"}}
        \cup {[kind |-> "project", id |-> id] : id \in DiscoveredIds}

\* fetchProjectId's loop after the answer of one endpoint: return the id, go on
\* to the next endpoint, or return the default after the last one
fetchProjectId_StopsAtStatus(contacted) ==
    LET last == contacted[Len(contacted)]
    IN IF last.kind = "project" THEN [done |-> TRUE, id |-> last.id]
       ELSE IF last.kind = "status" \/ Len(contacted) = NumLoadEndpoints
       THEN [done |-> TRUE, id |-> Empty]
       ELSE [done |-> FALSE, id |-> Empty]

fetchProjectId(contacted) ==
    LET last == contacted[Len(contacted)]
    IN IF last.kind = "project" THEN [done |-> TRUE, id |-> last.id]
       ELSE IF Len(contacted) = NumLoadEndpoints
       THEN [done |-> TRUE, id |-> Empty]
       ELSE [done |-> FALSE, id |-> Empty]

AntigravityAccess == 80
AntigravityNewAccess == 81
AntigravityRefreshResponses ==
    {[access_token |-> AntigravityNewAccess, refresh_token |-> r,
      expires_in |-> e] : r \in {Empty, <<"b">>}, e \in ExpiresInChoices}

antigravityUpdatedToken_KeepsProject(token, parts, newTokens, fresh, nowMs) ==
    [token EXCEPT
        !.access = newTokens.access_token,
        !.refresh = pack(IF newTokens.refresh_token # Empty
                         THEN newTokens.refresh_token ELSE parts.refreshToken,
                         parts.projectId),
        !.expires = calculateExpiry(nowMs, newTokens.expires_in)]

\* updatedToken of getAntigravityAccessToken; fresh is what fetchProjectId
\* returned
antigravityUpdatedToken(token, parts, newTokens, fresh, nowMs) ==
    [token EXCEPT
        !.access = newTokens.access_token,
        !.refresh = pack(IF newTokens.refresh_token # Empty
                         THEN newTokens.refresh_token ELSE parts.refreshToken,
                         IF fresh # Empty THEN fresh ELSE parts.projectId),
        !.expires = calculateExpiry(nowMs, newTokens.expires_in)]

AccessCall == antigravityCalls.access

\* getAntigravityAccessToken() up to `await getToken("antigravity")`
CallGetAntigravityAccessToken ==
    /\ AccessCall.pc = "idle"
    /\ antigravityCalls' = [antigravityCalls EXCEPT !.access.pc = "getToken"]
    /\ UNCHANGED <<now, authStore, refreshVars, flowVars, deviceVars, storeVars,
                   copilotCalls>>

\* after getToken: not authenticated, cached access, no refresh token, or the
\* refresh request is sent
AntigravityAfterGetToken ==
    /\ AccessCall.pc = "getToken"
    /\ LET token == getToken(authStore, "antigravity")
           parts == parseRefreshParts(token.refresh)
       IN antigravityCalls' = [antigravityCalls EXCEPT !.access =
             IF token.type # "oauth"
             THEN [@ EXCEPT !.pc = "done",
                            !.result = ErrorResult("NotAuthenticated")]
             ELSE IF ~isTokenExpired(token, now)
             THEN [@ EXCEPT !.pc = "done", !.token = token,
                            !.result = TokenResult(token.access)]
             ELSE IF parts.refreshToken = Empty
             THEN [@ EXCEPT !.pc = "done", !.token = token, !.parts = parts,
                            !.result = ErrorResult("NoRefreshToken")]
             ELSE [@ EXCEPT !.pc = "refreshing", !.token = token,
                            !.parts = parts]]
    /\ UNCHANGED <<now, authStore, refreshVars, flowVars, deviceVars, storeVars,
                   copilotCalls>>

\* refreshAccessToken resolves; fetchProjectId sends its first request
AntigravityRefreshResponds(newTokens) ==
    /\ AccessCall.pc = "refreshing"
    /\ antigravityCalls' = [antigravityCalls EXCEPT
          !.access.pc = "discovering", !.access.newTokens = newTokens]
    /\ UNCHANGED <<now, authStore, refreshVars, flowVars, deviceVars, storeVars,
                   copilotCalls>>

\* refreshAccessToken rejects: the outer catch throws the re-login error
AntigravityRefreshFails ==
    /\ AccessCall.pc = "refreshing"
    /\ antigravityCalls' = [antigravityCalls EXCEPT
          !.access.pc = "done", !.access.result = ErrorResult("RefreshFailed")]
    /\ UNCHANGED <<now, authStore, refreshVars, flowVars, deviceVars, storeVars,
                   copilotCalls>>

\* the endpoint fetchProjectId is waiting for answers; when the loop ends,
\* updatedToken is built and saveToken reads the store
DiscoveryResponds(outcome) ==
    /\ AccessCall.pc = "discovering"
    /\ LET contacted == Append(AccessCall.contacted,
                               [endpoint |-> Len(AccessCall.contacted) + 1,
                                kind |-> outcome.kind, id |-> outcome.id])
           r == fetchProjectId(contacted)
       IN antigravityCalls' = [antigravityCalls EXCEPT !.access =
             IF ~r.done THEN [@ EXCEPT !.contacted = contacted]
             ELSE [@ EXCEPT !.pc = "saving", !.contacted = contacted,
                            !.discovered = r.id,
                            !.updated = antigravityUpdatedToken(
                                AccessCall.token, AccessCall.parts,
                                AccessCall.newTokens, r.id, now),
                            !.updatedAt = now,
                            !.store = authStore]]
    /\ UNCHANGED <<now, authStore, refreshVars, flowVars, deviceVars, storeVars,
                   copilotCalls>>

\* saveToken("antigravity", updatedToken) writes; updatedToken.access is
\* returned
AntigravitySave ==
    /\ AccessCall.pc = "saving"
    /\ authStore' = saveToken(AccessCall.store, "antigravity", AccessCall.updated)
    /\ antigravityCalls' = [antigravityCalls EXCEPT
          !.access.pc = "done",
          !.access.result = TokenResult(AccessCall.updated.access)]
    /\ UNCHANGED <<now, refreshVars, flowVars, deviceVars, storeVars, copilotCalls>>

\* getAntigravityProjectId(): getToken, then the project part of the refresh
\* string, the default for a missing or API-key credential
CallGetAntigravityProjectId ==
    /\ antigravityCalls.projectId.pc = "idle"
    /\ LET token == getToken(authStore, "antigravity")
       IN antigravityCalls' = [antigravityCalls EXCEPT !.projectId =
             [pc |-> "done", token |-> token,
              result |-> IF token.type # "oauth" THEN Empty
                         ELSE parseRefreshParts(token.refresh).projectId]]
    /\ UNCHANGED <<now, authStore, refreshVars, flowVars, deviceVars, storeVars,
                   copilotCalls>>

\* the refresh string the login hook stores:
\* `${tokens.refresh_token || ""}|${projectId}`
LoginRefreshTokens == {str \in Strings : ~HasPipe(str)}
antigravityLoginToken(refresh_token, projectId, expires) ==
    OAuthToken(AntigravityAccess, pack(refresh_token, projectId), expires, 0)

\* the hook of startAntigravityLogin has run and startAuthCodeLogin saves the
\* credential
AntigravityLoginSaves(refresh_token, projectId) ==
    /\ getToken(authStore, "antigravity").type = "none"
    /\ authStore' = saveToken(authStore, "antigravity",
                       antigravityLoginToken(refresh_token, projectId, 3 * TickMs))
    /\ UNCHANGED <<now, refreshVars, flowVars, deviceVars, storeVars, providerVars>>

\* the credentials a login may have left when getAntigravityAccessToken runs
StoredAntigravityTokens ==
    {antigravityLoginToken(r, p, e) :
        r \in {Empty, <<"a">>}, p \in {Empty, <<"a">>}, e \in InitialExpires}

InitAntigravity ==
    /\ now = 0
    /\ authStore \in {[p \in Providers |-> IF p = "antigravity" THEN t ELSE NoToken] :
                         t \in {NoToken} \cup StoredAntigravityTokens}
    /\ refreshingTokens = [p \in Providers |-> 0]
    /\ refreshes = <<>>
    /\ callers = [c \in Callers |-> IdleCaller]
    /\ activeFlows = [p \in Providers |-> 0]
    /\ flows = <<>>
    /\ logins = [l \in Logins |-> IdleLogin]
    /\ foreignListener = FALSE
    /\ device = IdleDevice
    /\ storeOps = [t \in StoreOps |-> IdleStoreOp]
    /\ authFile = SecureFile
    /\ copilotCalls = [c \in Callers |-> IdleCopilotCall]
    /\ antigravityCalls = IdleAntigravityCall

NextAntigravity ==
    \/ CallGetAntigravityAccessToken
    \/ AntigravityAfterGetToken
    \/ \E newTokens \in AntigravityRefreshResponses :
          AntigravityRefreshResponds(newTokens)
    \/ AntigravityRefreshFails
    \/ \E outcome \in DiscoveryOutcomes : DiscoveryResponds(outcome)
    \/ AntigravitySave
    \/ Tick

SpecAntigravity == InitAntigravity /\ [][NextAntigravity]_vars

\* a login that stores pack(r, p) and a getAntigravityProjectId call
NextPack ==
    \/ \E r \in LoginRefreshTokens, p \in Strings : AntigravityLoginSaves(r, p)
    \/ CallGetAntigravityProjectId

SpecPack == InitPoll /\ [][NextPack]_vars

\* ============================================================ token store
deleteToken_KeepsKey(store, provider) == store

\* deleteToken's write: the document the task read, without the key
deleteToken(store, provider) == [store EXCEPT ![provider] = NoToken]

\* listTokens: Object.entries(store) as {provider, token} records
listTokens(store) ==
    {[provider |-> p, token |-> store[p]] : p \in {q \in Providers : store[q] # NoToken}}

StoreProviders == {"codex", "gemini"}
StoreTokens == {ApiKeyToken(9), OAuthToken(1, 7, TickMs, 5)}

EmptyStore == [p \in Providers |-> NoToken]

\* ensureAuthFile: mkdir -p of the home directory, then, when fs.access fails,
\* writeFile of "{}" with mode 0o600; an existing file is left as it is
ensureAuthFile(file) == IF file.exists THEN file ELSE SecureFile

\* what auth.json holds once ensureAuthFile has run
ensuredContent(file, content) == IF file.exists THEN content ELSE EmptyStore

readStore_NoCatch(file, content) ==
    [raised |-> ~ensureAuthFile(file).parsable,
     store |-> ensuredContent(file, content)]

\* readStore: ensureAuthFile, then JSON.parse of the file, {} when that throws
readStore(file, content) ==
    [raised |-> FALSE,
     store |-> IF ensureAuthFile(file).parsable THEN ensuredContent(file, content)
               ELSE EmptyStore]

\* a call whose readStore threw rejects with that error
Raise(t, op, p) ==
    /\ storeOps' = [storeOps EXCEPT ![t] =
          [@ EXCEPT !.pc = "done", !.op = op, !.provider = p, !.raised = TRUE,
                    !.found = authFile]]

\* the file system after the readStore of a call
AfterEnsure ==
    /\ authFile' = ensureAuthFile(authFile)
    /\ authStore' = ensuredContent(authFile, authStore)

\* getToken(provider): readStore, then store[provider] || null
CallGetToken(t, p) ==
    /\ storeOps[t].pc = "idle"
    /\ \A u \in StoreOps : u < t => storeOps[u].pc # "idle"
    /\ LET r == readStore(authFile, authStore)
       IN IF r.raised THEN Raise(t, "get", p)
          ELSE storeOps' = [storeOps EXCEPT ![t] =
                  [@ EXCEPT !.pc = "done", !.op = "get", !.provider = p,
                            !.store = r.store, !.found = authFile,
                            !.result = getToken(r.store, p)]]
    /\ AfterEnsure
    /\ UNCHANGED <<now, refreshVars, flowVars, deviceVars, providerVars>>

\* listTokens(): readStore, then the entries
CallListTokens(t) ==
    /\ storeOps[t].pc = "idle"
    /\ \A u \in StoreOps : u < t => storeOps[u].pc # "idle"
    /\ LET r == readStore(authFile, authStore)
       IN IF r.raised THEN Raise(t, "list", "codex")
          ELSE storeOps' = [storeOps EXCEPT ![t] =
                  [@ EXCEPT !.pc = "done", !.op = "list",
                            !.store = r.store, !.found = authFile,
                            !.result = listTokens(r.store)]]
    /\ AfterEnsure
    /\ UNCHANGED <<now, refreshVars, flowVars, deviceVars, providerVars>>

\* saveToken(provider, token) up to the end of `await readStore()`
CallSaveToken(t, p, token) ==
    /\ storeOps[t].pc = "idle"
    /\ \A u \in StoreOps : u < t => storeOps[u].pc # "idle"
    /\ LET r == readStore(authFile, authStore)
       IN IF r.raised THEN Raise(t, "save", p)
          ELSE storeOps' = [storeOps EXCEPT ![t] =
                  [@ EXCEPT !.pc = "write", !.op = "save", !.provider = p,
                            !.token = token, !.store = r.store, !.found = authFile]]
    /\ AfterEnsure
    /\ UNCHANGED <<now, refreshVars, flowVars, deviceVars, providerVars>>

\* deleteToken(provider) up to the end of `await readStore()`; an absent key
\* returns false without a write
CallDeleteToken(t, p) ==
    /\ storeOps[t].pc = "idle"
    /\ \A u \in StoreOps : u < t => storeOps[u].pc # "idle"
    /\ LET r == readStore(authFile, authStore)
       IN IF r.raised THEN Raise(t, "delete", p)
          ELSE storeOps' = [storeOps EXCEPT ![t] =
                  IF r.store[p] = NoToken
                  THEN [@ EXCEPT !.pc = "done", !.op = "delete", !.provider = p,
                                 !.store = r.store, !.found = authFile,
                                 !.result = FALSE]
                  ELSE [@ EXCEPT !.pc = "write", !.op = "delete", !.provider = p,
                                 !.store = r.store, !.found = authFile]]
    /\ AfterEnsure
    /\ UNCHANGED <<now, refreshVars, flowVars, deviceVars, providerVars>>

\* writeStore(store) of saveToken or deleteToken: ensureAuthFile, writeFile of
\* the whole document, chmod 0o600; the call returns
WriteStore(t) ==
    /\ storeOps[t].pc = "write"
    /\ authStore' = IF storeOps[t].op = "save"
                    THEN saveToken(storeOps[t].store, storeOps[t].provider,
                                   storeOps[t].token)
                    ELSE deleteToken(storeOps[t].store, storeOps[t].provider)
    /\ authFile' = SecureFile
    /\ storeOps' = [storeOps EXCEPT ![t] =
          [@ EXCEPT !.pc = "done",
                    !.result = IF storeOps[t].op = "save" THEN <<>> ELSE TRUE]]
    /\ UNCHANGED <<now, refreshVars, flowVars, deviceVars, providerVars>>

\* the states auth.json can be found in when the process starts
InitialFiles ==
    {NoFile(dir) : dir \in BOOLEAN}
        \cup {FileState(TRUE, TRUE, mode, parsable) :
                 mode \in {OwnerOnly, WeakMode}, parsable \in BOOLEAN}

InitStore ==
    /\ now = 0
    /\ authFile \in InitialFiles
    /\ copilotCalls = [c \in Callers |-> IdleCopilotCall]
    /\ antigravityCalls = IdleAntigravityCall
    /\ authStore \in {[p \in Providers |-> IF p = "codex" THEN t ELSE NoToken] :
                         t \in IF authFile.exists THEN {NoToken} \cup StoreTokens
                               ELSE {NoToken}}
    /\ refreshingTokens = [p \in Providers |-> 0]
    /\ refreshes = <<>>
    /\ callers = [c \in Callers |-> IdleCaller]
    /\ activeFlows = [p \in Providers |-> 0]
    /\ flows = <<>>
    /\ logins = [l \in Logins |-> IdleLogin]
    /\ foreignListener = FALSE
    /\ device = IdleDevice
    /\ storeOps = [t \in StoreOps |-> IdleStoreOp]

NextStore ==
    \/ \E t \in StoreOps, p \in StoreProviders : CallGetToken(t, p)
    \/ \E t \in StoreOps : CallListTokens(t)
    \/ \E t \in StoreOps, p \in StoreProviders, token \in StoreTokens :
          CallSaveToken(t, p, token)
    \/ \E t \in StoreOps, p \in StoreProviders : CallDeleteToken(t, p)
    \/ \E t \in StoreOps : WriteStore(t)

SpecStore == InitStore /\ [][NextStore]_vars

\* ============================================ logins and refreshes together
\* One getOAuthAccessToken / getValidToken call and one startAuthCodeLogin for
\* the same provider in one process: the refresh coordinator and the
\* authorization-code flow share auth.json and nothing else.  The clock moves
\* by Tick only, so the five-minute idle timer of the flow never fires here.
FirstCaller == {c \in Callers : \A d \in Callers : c <= d}
FirstLogin == {l \in Logins : \A m \in Logins : l <= m}

NextLoginRefresh ==
    \/ \E c \in FirstCaller, p \in RefreshProviders, throwing \in BOOLEAN :
          CallGetAccessToken(c, p, throwing)
    \/ \E c \in FirstCaller : ResumeAfterGetToken(c)
    \/ \E a \in FirstCaller : \E resp \in RefreshResponses(a) : RefreshResponds(a, resp)
    \/ \E a \in FirstCaller : SaveRefreshedToken(a)
    \/ \E a \in FirstCaller : RefreshFulfilled(a)
    \/ \E a \in FirstCaller, kind \in RefreshFailureKinds : RefreshFails(a, kind)
    \/ \E c \in FirstCaller : ReturnFromRefresh(c)
    \/ Tick
    \/ \E l \in FirstLogin, p \in FlowProviders : StartAuthCodeLogin(l, p)
    \/ \E l \in FirstLogin : ListenResumes(l)
    \/ \E f \in FirstLogin, e \in CallbackErrors, st \in CallbackStates,
          code \in CallbackCodes : Callback(f, e, st, code)
    \/ \E l \in FirstLogin : \E resp \in ExchangeResponses(l) : ExchangeResponds(l, resp)
    \/ \E l \in FirstLogin : ExchangeFails(l)
    \/ \E l \in FirstLogin, a \in HookAccountIds : HookReturns(l, a)
    \/ \E l \in FirstLogin : HookThrows(l)
    \/ \E l \in FirstLogin : SaveLoginToken(l)

SpecLoginRefresh == InitRefresh /\ [][NextLoginRefresh]_vars

\* ================================================================== Codex
\* providers/codex.ts, lines 161-223.  An id_token is absent from the token
\* response, or not a three-part JWT, or a payload with the root-level claim
\* chatgpt_account_id and the claim nested under https://api.openai.com/auth
\* (0: the claim is missing).
RootAccountId == 5
NestedAccountId == 6
NoIdToken == [present |-> FALSE, wellFormed |-> FALSE, root |-> 0, nested |-> 0]
IdTokens ==
    {NoIdToken, [present |-> TRUE, wellFormed |-> FALSE, root |-> 0, nested |-> 0]}
        \cup {[present |-> TRUE, wellFormed |-> TRUE, root |-> r, nested |-> n] :
                 r \in {0, RootAccountId}, n \in {0, NestedAccountId}}

extractAccountId_NestedFirst(idToken) ==
    IF ~idToken.wellFormed THEN 0
    ELSE IF idToken.nested # 0 THEN idToken.nested
    ELSE idToken.root

\* extractAccountId: undefined (0) for a malformed token, else the root claim,
\* else the nested one
extractAccountId(idToken) ==
    IF ~idToken.wellFormed THEN 0
    ELSE IF idToken.root # 0 THEN idToken.root
    ELSE idToken.nested

\* the hook of startCodexLogin
codexOnTokensReceived(tokens) ==
    IF tokens.id_token.present THEN extractAccountId(tokens.id_token) ELSE 0

\* the token response of the Codex login: short-lived, so that the calls after
\* the login refresh it
CodexExpiresIn == 30
CodexExchangeResponses(l) ==
    [access_token : {ExchangedAccess(l)},
     refresh_token : {ExchangedRefresh(l)},
     expires_in : {CodexExpiresIn},
     id_token : IdTokens]

AccountIdHeader == "chatgpt-account-id"

\* getCodexExtraHeaders' result for the credential getToken returned, as a set
\* of <<header, value>> pairs
getCodexExtraHeaders(token) ==
    IF token.type = "oauth" /\ token.accountId # 0
    THEN {<<AccountIdHeader, token.accountId>>}
    ELSE {}

\* getCodexExtraHeaders(): getToken("codex"), then the mapping
CallGetCodexExtraHeaders(t) ==
    /\ storeOps[t].pc = "idle"
    /\ \A u \in StoreOps : u < t => storeOps[u].pc # "idle"
    /\ LET r == readStore(authFile, authStore)
       IN storeOps' = [storeOps EXCEPT ![t] =
             [@ EXCEPT !.pc = "done", !.op = "headers", !.provider = "codex",
                       !.store = r.store, !.found = authFile,
                       !.token = getToken(r.store, "codex"),
                       !.result = getCodexExtraHeaders(getToken(r.store, "codex"))]]
    /\ AfterEnsure
    /\ UNCHANGED <<now, refreshVars, flowVars, deviceVars, providerVars>>

\* onTokensReceived of startCodexLogin returned {accountId}
CodexHookReturns(l) ==
    /\ logins[l].pc = "hook"
    /\ HookReturns(l, codexOnTokensReceived(logins[l].tokens))

\* one Codex login, the getOAuthAccessToken calls after it and the
\* getCodexExtraHeaders calls
NextCodex ==
    \/ \E l \in FirstLogin : StartAuthCodeLogin(l, "codex")
    \/ \E l \in FirstLogin : ListenResumes(l)
    \/ \E f \in FirstLogin, st \in CallbackStates, code \in CallbackCodes :
          Callback(f, 0, st, code)
    \/ \E l \in FirstLogin : \E resp \in CodexExchangeResponses(l) :
          ExchangeResponds(l, resp)
    \/ \E l \in FirstLogin : CodexHookReturns(l)
    \/ \E l \in FirstLogin : SaveLoginToken(l)
    \/ \E c \in Callers : CallGetAccessToken(c, "codex", TRUE)
    \/ \E c \in Callers : ResumeAfterGetToken(c)
    \/ \E a \in Callers : \E resp \in RefreshResponses(a) : RefreshResponds(a, resp)
    \/ \E a \in Callers : SaveRefreshedToken(a)
    \/ \E a \in Callers : RefreshFulfilled(a)
    \/ \E c \in Callers : ReturnFromRefresh(c)
    \/ \E t \in StoreOps : CallGetCodexExtraHeaders(t)

SpecCodex == InitPoll /\ [][NextCodex]_vars

\* ======================================================= refresh: properties
Overlap(c, d) == c \in callers[d].concurrent \/ d \in callers[c].concurrent

TookRefreshPath(c) == callers[c].attempt # 0

Settled(a) == refreshes[a].status \in {"fulfilled", "rejected"}

\* C1 (single-flight refresh).  Two overlapping calls for the same provider
\* that both read the same expired credential with a refresh value, and whose
\* refresh requests the token endpoint did not fail, rest on one and the same
\* refresh request, and once both have returned they returned the same
\* refreshed access value.
C1_SingleFlightRefresh ==
    \A c, d \in Callers :
        ( /\ c # d
          /\ Overlap(c, d)
          /\ callers[c].provider = callers[d].provider
          /\ callers[c].token = callers[d].token
          /\ TookRefreshPath(c) /\ TookRefreshPath(d)
          /\ refreshes[callers[c].attempt].status # "rejected"
          /\ refreshes[callers[d].attempt].status # "rejected" )
        => /\ callers[c].attempt = callers[d].attempt
           /\ (callers[c].pc = "done" /\ callers[d].pc = "done")
                 => callers[c].result = callers[d].result

C2_EntryGoneOnceSettled ==
    \A a \in 1..Len(refreshes) :
        Settled(a) => refreshingTokens[refreshes[a].provider] # a

C2_FailureSeenOnlyByJoiners ==
    \A c \in Callers :
        (callers[c].pc = "done" /\ callers[c].result.error = "RefreshFailed")
            => /\ TookRefreshPath(c)
               /\ refreshes[callers[c].attempt].status = "rejected"

C2_JoinStep(c) ==
    (callers[c].pc = "getToken" /\ callers'[c].pc = "awaitRefresh")
        => /\ refreshes'[callers'[c].attempt].status \notin {"fulfilled", "rejected"}
           /\ refreshingTokens[callers[c].provider] = 0
                => /\ Len(refreshes') = Len(refreshes) + 1
                   /\ callers'[c].attempt = Len(refreshes')
                   /\ refreshes'[Len(refreshes')].status = "fetching"

\* C2 (a failed refresh does not poison later calls).  A settled refresh
\* promise is never the provider's entry of refreshingTokens; a caller that
\* reaches refreshAndSaveOAuthToken joins only a promise that is still
\* pending, and sends a new request when the provider has no entry; and a
\* caller reports a refresh failure only when the promise it joined was
\* rejected.
C2_FailedRefreshDoesNotPoison ==
    /\ [](C2_EntryGoneOnceSettled /\ C2_FailureSeenOnlyByJoiners)
    /\ [][\A c \in Callers : C2_JoinStep(c)]_vars

\* a refresh was rejected and a later call sent a new request for the provider
C2_Witness ==
    \E a, b \in 1..Len(refreshes) :
        /\ a < b
        /\ refreshes[a].provider = refreshes[b].provider
        /\ refreshes[a].status = "rejected"
        /\ refreshes[b].status = "fulfilled"
        /\ \E c \in Callers : callers[c].pc = "done" /\ callers[c].attempt = b

C3_FailStep(a) ==
    (refreshes[a].status = "fetching" /\ refreshes'[a].status = "rejected")
        => authStore' = authStore

C3_CallFails ==
    \A c \in Callers :
        ( /\ callers[c].pc = "done"
          /\ TookRefreshPath(c)
          /\ refreshes[callers[c].attempt].status = "rejected" )
        => callers[c].result =
              IF callers[c].throwing THEN ErrorResult("RefreshFailed")
              ELSE NullResult

\* C3 (a failed refresh leaves the stored credential alone).  The step in
\* which a refresh request fails changes nothing in the store, and every call
\* that awaited the rejected promise fails: getOAuthAccessToken throws,
\* getValidToken returns null.
C3_FailedRefreshKeepsCredential ==
    /\ []C3_CallFails
    /\ [][\A a \in 1..Len(refreshes) : C3_FailStep(a)]_vars

\* a refresh failed, both kinds of call have returned from it, and the store
\* still holds the credential the refresh started from
C3_Witness ==
    \E c, d \in Callers :
        /\ callers[c].pc = "done" /\ callers[d].pc = "done"
        /\ callers[c].throwing /\ ~callers[d].throwing
        /\ callers[c].attempt # 0 /\ callers[c].attempt = callers[d].attempt
        /\ refreshes[callers[c].attempt].status = "rejected"
        /\ authStore[callers[c].provider] = refreshes[callers[c].attempt].token

ReturnsCached(c) ==
    /\ callers'[c].pc = "done"
    /\ callers'[c].result = TokenResult(callers[c].token.access)
    /\ refreshes' = refreshes

ChecksOAuthToken(c) ==
    /\ callers[c].pc = "getToken"
    /\ callers'[c].pc # "getToken"
    /\ callers[c].token.type = "oauth"

\* C10 (expiry buffer), as stated: the cached access value is returned without a request
\* iff now < expires - 60000, and otherwise a refresh is attempted.
C10_ExpiryBufferAsStated ==
    [][\A c \in Callers : ChecksOAuthToken(c) =>
          /\ ReturnsCached(c) <=> (now < callers[c].token.expires - 60000)
          /\ ~(now < callers[c].token.expires - 60000)
                => callers'[c].pc = "awaitRefresh"]_vars

\* C10 (expiry buffer), as amended: the cached access value is returned without a request iff
\* now < expires - 60000; otherwise the credential is treated as expired: a
\* refresh is attempted when a refresh value is stored, and the call fails
\* without a request when none is.
C10_ExpiryBuffer ==
    [][\A c \in Callers : ChecksOAuthToken(c) =>
          /\ ReturnsCached(c) <=> (now < callers[c].token.expires - 60000)
          /\ (~(now < callers[c].token.expires - 60000) /\ callers[c].token.refresh # 0)
                => callers'[c].pc = "awaitRefresh"
          /\ (~(now < callers[c].token.expires - 60000) /\ callers[c].token.refresh = 0)
                => /\ callers'[c].pc = "done"
                   /\ callers'[c].result =
                        IF callers[c].throwing THEN ErrorResult("Expired")
                        ELSE NullResult
                   /\ refreshes' = refreshes]_vars

\* the call sites P2 names: a credential that expires 30 s from now, and one
\* that expires exactly 60 s from now, were both sent to refresh, and a
\* credential further from its expiry was returned from the cache
C10_Witness ==
    \E c, d \in Callers :
        /\ callers[c].pc = "done" /\ callers[d].pc = "done"
        /\ callers[c].attempt # 0
        /\ refreshes[callers[c].attempt].token.expires = 3 * TickMs
        /\ callers[d].attempt = 0
        /\ callers[d].result = TokenResult(callers[d].token.access)
        /\ callers[d].token.type = "oauth"
\* the save step of a successful refresh, for attempt a
C11_SaveStep(a) ==
    (a \in 1..Len(refreshes) /\ refreshes[a].status = "saving"
     /\ refreshes'[a].status = "saved")
    => LET r == refreshes[a]
           stored == authStore'[r.provider]
       IN /\ stored.type = "oauth"
          /\ stored.access = r.resp.access_token
          /\ stored.refresh = IF r.resp.refresh_token = 0 THEN r.token.refresh
                              ELSE r.resp.refresh_token
          /\ stored.expires = r.respondedAt + r.resp.expires_in * 1000
          /\ stored.accountId = r.token.accountId

C11_CallersGetNewAccess ==
    \A c \in Callers :
        ( /\ callers[c].pc = "done" /\ TookRefreshPath(c)
          /\ refreshes[callers[c].attempt].status = "fulfilled" )
        => callers[c].result =
              TokenResult(refreshes[callers[c].attempt].resp.access_token)

\* C11 -- result of a successful refresh: the step that saves a refreshed
\* credential leaves for the provider the access value of the response, the
\* refresh value of the response or, when it carries none, the previous one,
\* expires = (time of the response) + expires_in * 1000 and the previous
\* account id; every call that awaited this refresh returns the new access
\* value.
C11_RefreshResult ==
    /\ []C11_CallersGetNewAccess
    /\ [][\A a \in Callers : C11_SaveStep(a)]_vars

\* both kinds of response were saved: one without and one with a refresh_token
C11_Witness ==
    \E c \in Callers :
        /\ callers[c].pc = "done" /\ TookRefreshPath(c)
        /\ LET r == refreshes[callers[c].attempt]
           IN /\ r.status = "fulfilled"
              /\ r.resp.refresh_token = 0
              /\ authStore[r.provider].refresh = r.token.refresh
              /\ authStore[r.provider].access = r.resp.access_token
              /\ authStore[r.provider].accountId = 5
              /\ callers[c].result = TokenResult(r.resp.access_token)

\* one variant's outcome against the other's: the same string, or a failure
\* against an empty result, or both drive a refresh
SameSemantics(throwingOutcome, nullOutcome) ==
    /\ throwingOutcome.kind = "token" <=> nullOutcome.kind = "token"
    /\ throwingOutcome.kind = "token" => throwingOutcome.value = nullOutcome.value
    /\ throwingOutcome.kind = "error" <=> nullOutcome.kind = "null"
    /\ throwingOutcome.kind = "refresh" <=> nullOutcome.kind = "refresh"

\* C12 -- the two variants have the same semantics: on every credential a
\* call reads, at the time it reads it, one variant returns the string s iff
\* the other returns s (the key of an API-key credential included) and the
\* throwing variant fails exactly where the other returns empty; and two
\* calls of different variants that awaited the same refresh agree likewise.
C12_VariantsAgree ==
    /\ \A c \in Callers : callers[c].pc = "getToken" =>
          SameSemantics(getOAuthAccessToken_Decision(callers[c].token, now),
                        getValidToken_Decision(callers[c].token, now))
    /\ \A c, d \in Callers :
          ( /\ callers[c].pc = "done" /\ callers[d].pc = "done"
            /\ callers[c].throwing /\ ~callers[d].throwing
            /\ TookRefreshPath(c) /\ callers[c].attempt = callers[d].attempt )
          => SameSemantics(callers[c].result, callers[d].result)

NoPathToRecovery(token, nowMs) ==
    \/ token.type = "none"
    \/ token.type = "oauth" /\ ~(nowMs < token.expires - 60000) /\ token.refresh = 0

C13_Step(c) ==
    ( /\ callers[c].pc = "getToken" /\ callers'[c].pc # "getToken"
      /\ NoPathToRecovery(callers[c].token, now) )
    => /\ callers'[c].pc = "done"
       /\ callers'[c].result =
             IF ~callers[c].throwing THEN NullResult
             ELSE IF callers[c].token.type = "none"
                  THEN ErrorResult("NotAuthenticated")
                  ELSE ErrorResult("Expired")
       /\ refreshes' = refreshes
       /\ refreshingTokens' = refreshingTokens
       /\ authStore' = authStore

\* C13 -- no credential, or an expired OAuth credential without a refresh
\* value: the throwing variant fails with the not-authenticated, respectively
\* the expired error, the other variant returns empty, no request is sent to
\* the token endpoint and the store is left unchanged.
C13_FailsWithoutRequest == [][\A c \in Callers : C13_Step(c)]_vars

C13_Witness ==
    \E c, d \in Callers :
        /\ callers[c].pc = "done" /\ callers[d].pc = "done"
        /\ callers[c].token.type = "oauth" /\ callers[c].token.refresh = 0
        /\ callers[c].result = ErrorResult("Expired")
        /\ callers[d].result = NullResult
        /\ refreshes = <<>>
        /\ authStore[callers[c].provider] = callers[c].token

\* ================================================ flow: fair specification
\* Timers fire, pending I/O completes and time passes; the browser callback
\* is the user's act and is never forced.
SpecFlowFair ==
    /\ SpecFlow
    /\ WF_vars(\E l \in Logins : ListenResumes(l))
    /\ WF_vars(\E p \in FlowProviders : TimeoutFires(p))
    /\ WF_vars(\E l \in Logins : \E resp \in ExchangeResponses(l) : ExchangeResponds(l, resp))
    /\ WF_vars(\E l \in Logins, a \in HookAccountIds : HookReturns(l, a))
    /\ WF_vars(\E l \in Logins : SaveLoginToken(l))
    /\ WF_vars(FlowTick)

\* ========================================================= flow: properties
FlowIds == 1..Len(flows)
LoginsOf(f) == {l \in Logins : logins[l].pc # "idle" /\ logins[l].flow = f}
CallbackRejectedReasons == {"oauth_error", "state_mismatch", "missing_code"}
Terminated(l) == logins[l].pc \in {"done", "failed"}

\* C4 -- CSRF rejection: once a callback whose state differs from the state
\* generated at flow start has reached a flow, the flow's result is a
\* rejection of the callback, every login on that flow fails with it (or is
\* still in its start call and will), none of them sends a code exchange,
\* and none of them saves a credential.
C4_CSRFRejection ==
    \A f \in FlowIds : flows[f].mismatchSeen =>
        /\ flows[f].promise = "rejected"
        /\ flows[f].reason \in CallbackRejectedReasons
        /\ \A l \in LoginsOf(f) :
              /\ logins[l].pc \in {"listening", "failed"}
              /\ logins[l].pc = "failed" => logins[l].error \in CallbackRejectedReasons
              /\ logins[l].code = 0
              /\ logins[l].token = NoToken
              /\ \A p \in Providers : authStore[p].access # ExchangedAccess(l)

C4_Witness ==
    \E l \in Logins :
        /\ logins[l].pc = "failed"
        /\ logins[l].error = "state_mismatch"
        /\ flows[logins[l].flow].mismatchSeen
        /\ \A p \in Providers : authStore[p] = NoToken

C5_StartWhileAwaiting(l) ==
    \A d \in Logins :
        ( /\ logins[l].pc = "idle" /\ logins'[l].pc # "idle"
          /\ logins[d].pc = "awaitCallback"
          /\ logins[d].provider = logins'[l].provider
          /\ flows[logins[d].flow].server = "listening" )
        => /\ logins'[l].flow = logins[d].flow
           /\ logins'[l].authUrl = logins[d].authUrl
           /\ logins'[l].pc = "awaitCallback"
           /\ Len(flows') = Len(flows)
           /\ \A f \in FlowIds : flows'[f].server = flows[f].server

\* C5 -- flow reuse: a start for provider P while an earlier login of P is
\* awaiting the callback on a listening server returns that login's
\* authorization URL and its pending flow, and creates no server.
C5_FlowReuse == [][\A l \in Logins : C5_StartWhileAwaiting(l)]_vars

C5_Witness ==
    \E l, d \in Logins :
        /\ l # d
        /\ logins[l].reused
        /\ logins[l].pc = "awaitCallback" /\ logins[d].pc = "awaitCallback"
        /\ logins[l].flow = logins[d].flow
        /\ logins[l].authUrl = logins[d].authUrl
        /\ Len(flows) = 1

\* C6 -- racing starts: a start that begins while another start of the same
\* provider is still binding and registering shares that start's flow (one
\* bind only) and authorization URL, and does not fail with PortInUse.
C6_RacingStartsNeverCollide ==
    \A l \in Logins :
        (logins[l].raced /\ logins[l].pc # "listening" /\ ~foreignListener) =>
        /\ ~(logins[l].pc = "failed" /\ logins[l].error = "PortInUse")
        /\ \E d \in Logins : d # l /\ logins[d].flow = logins[l].flow

\* C7 -- for every provider there is at most one listening callback server,
\* and a listening callback server is the one recorded in the provider's
\* ActiveFlow entry.
C7_OneActiveFlowPerProvider ==
    \A p \in FlowProviders :
        /\ Cardinality({f \in FlowIds : flows[f].provider = p
                                        /\ flows[f].server = "listening"}) <= 1
        /\ \A f \in FlowIds :
              (flows[f].provider = p /\ flows[f].server = "listening")
              => activeFlows[p] = f

\* C8 -- every login terminates: once the code is received the login runs to
\* its end, and once the idle timeout of its flow has fired a login that
\* still awaits the callback fails.
C8_EveryLoginTerminates ==
    \A l \in Logins :
        /\ (logins[l].pc \in {"exchanging", "hook", "saving"}) ~> Terminated(l)
        /\ (logins[l].pc = "awaitCallback" /\ flows[logins[l].flow].timedOut)
              ~> Terminated(l)

FlowOver(f) == flows[f].promise # "pending" \/ flows[f].timedOut
TornDown(f) == flows[f].server # "listening" /\ activeFlows[flows[f].provider] # f
StartInFlight(f) == \E l \in Logins : logins[l].pc = "listening" /\ logins[l].flow = f

C9_TeardownStep ==
    /\ \A f \in FlowIds : flows[f].server = "closed" => flows'[f].server = "closed"
    /\ \A p \in FlowProviders :
          (activeFlows'[p] # 0 /\ activeFlows'[p] # activeFlows[p])
          => \E l \in Logins : logins[l].pc = "listening"
                               /\ logins[l].flow = activeFlows'[p]

\* C9 -- teardown: a flow whose callback result is settled or whose idle
\* timeout fired has its server closed and its entry removed, at once when
\* the start call has returned and as soon as it returns otherwise; a closed
\* server stays closed and an entry appears only through a new start.
C9_FlowTornDown ==
    /\ [](\A f \in FlowIds : FlowOver(f) => (TornDown(f) \/ StartInFlight(f)))
    /\ \A f \in 1..NumLogins :
          (f \in FlowIds /\ FlowOver(f)) ~> (f \in FlowIds /\ TornDown(f))
    /\ [][C9_TeardownStep]_vars

C9_Witness ==
    \E f, g \in FlowIds :
        /\ flows[f].timedOut /\ flows[f].server = "closed"
        /\ flows[g].promise = "resolved" /\ flows[g].server = "closed"
        /\ \A p \in FlowProviders : activeFlows[p] = 0

C14_Decision(error, returnedState, code, expected) ==
    LET o == RequestOutcome(TRUE, error, returnedState, code, expected)
    IN  /\ error # 0 => o.settle = "rejected" /\ o.reason = "oauth_error"
        /\ (error = 0 /\ returnedState # expected)
              => o.settle = "rejected" /\ o.reason = "state_mismatch"
        /\ (error = 0 /\ returnedState = expected /\ code = 0)
              => o.settle = "rejected" /\ o.reason = "missing_code"
        /\ (error = 0 /\ returnedState = expected /\ code # 0)
              => o.settle = "resolved" /\ o.code = code

\* C14 -- the handler's order of decisions on the callback path, for every
\* flow and every request: provider error, then state mismatch, then missing
\* code, then the pending result resolves with exactly the received code,
\* which is the code awaitResult hands to the exchange; a request on another
\* path settles nothing.
C14_HandlerOrder ==
    /\ \A f \in FlowIds, e \in CallbackErrors, st \in CallbackStates,
          code \in CallbackCodes :
          /\ C14_Decision(e, st, code, flows[f].state)
          /\ RequestOutcome(FALSE, e, st, code, flows[f].state).settle = "pending"
    /\ \A f \in FlowIds :
          /\ flows[f].promise = "resolved"
                => flows[f].code \in CallbackCodes \ {0} /\ flows[f].reason = "none"
          /\ flows[f].promise = "rejected"
                => flows[f].code = 0 /\ flows[f].reason \in CallbackRejectedReasons
          /\ flows[f].promise = "pending"
                => flows[f].code = 0 /\ flows[f].reason = "none"
    /\ \A l \in Logins : logins[l].pc \in {"exchanging", "hook", "saving", "done"}
          => /\ flows[logins[l].flow].promise = "resolved"
             /\ logins[l].code = flows[logins[l].flow].code

\* Scenario C: the callback carried the expected state and code 77
C14_Witness ==
    \E l \in Logins :
        /\ logins[l].pc = "exchanging"
        /\ logins[l].code = 77
        /\ flows[logins[l].flow].promise = "resolved"
        /\ ~flows[logins[l].flow].mismatchSeen

C15_LoginStep(l) ==
    /\ (logins'[l].pc = "exchanging" /\ logins[l].pc # "exchanging")
          => /\ logins[l].pc \in {"awaitCallback", "listening", "idle"}
             /\ flows'[logins'[l].flow].promise = "resolved"
    /\ (logins'[l].pc = "hook" /\ logins[l].pc # "hook")
          => logins[l].pc = "exchanging"
    /\ (logins'[l].pc = "saving" /\ logins[l].pc # "saving")
          => logins[l].pc = "hook"
    /\ (logins'[l].pc = "done" /\ logins[l].pc # "done")
          => /\ logins[l].pc = "saving"
             /\ authStore'[logins[l].provider] = logins[l].token
             /\ logins[l].token.access = ExchangedAccess(l)
             /\ logins[l].token.accountId \in HookAccountIds
    /\ (logins'[l].pc = "failed" /\ logins[l].pc # "failed")
          => authStore' = authStore

C15_StoreStep ==
    authStore' # authStore
        => \E l \in Logins : logins[l].pc = "saving" /\ logins'[l].pc = "done"

C15_FailedLoginSavedNothing ==
    \A l \in Logins : logins[l].pc = "failed" =>
        /\ logins[l].error \in CallbackRejectedReasons
                               \cup {"PortInUse", "ExchangeFailed", "HookFailed"}
        /\ \A p \in Providers : authStore[p].access # ExchangedAccess(l)

\* C15 -- a login writes its credential only after, in this order, the
\* callback was accepted, the code exchange answered and the post-exchange
\* hook returned; nothing else writes the store; and a login that failed
\* (callback rejected, exchange failed, hook failed) wrote nothing.
C15_SaveOnlyAfterHook ==
    /\ []C15_FailedLoginSavedNothing
    /\ [][C15_StoreStep /\ \A l \in Logins : C15_LoginStep(l)]_vars

C15_Witness ==
    \E l, d \in Logins :
        /\ logins[l].pc = "done"
        /\ authStore[logins[l].provider] = logins[l].token
        /\ logins[l].token.accountId = 5
        /\ logins[d].pc = "failed"
        /\ logins[d].error = "HookFailed"

\* ======================================================= polling: properties
LastResponse(d) == IF d.responses = <<>> THEN "none" ELSE d.responses[Len(d.responses)]
Answered(kind) == device.pc = "fetching" /\ LastResponse(device') = kind

C16_Step ==
    /\ Answered("slow_down")
          => /\ device'.pc = "slowDown"
             /\ device'.waited = device.waited
    /\ (device.pc = "slowDown" /\ device'.pc # "slowDown")
          => /\ device'.waited = device.waited + 5000
             /\ now' = now + 5000
             /\ IF now' < device.deadline THEN device'.pc = "sleeping"
                ELSE device'.pc = "failed" /\ device'.error.kind = "timeout"
    /\ (device.pc = "sleeping" /\ device'.pc # "sleeping")
          => /\ device'.pc = "fetching"
             /\ device'.waited = device.waited + device.intervalMs
    /\ device.pc # "idle" => /\ device'.intervalMs = device.intervalMs
                             /\ device'.deadline = device.deadline
    /\ Answered("token")
          => /\ device'.pc = "copilotToken"
             /\ device'.token.refresh = GithubToken

\* C16 -- slow_down never ends the polling: it is followed by one extra delay
\* of 5000 ms and then by the loop's ordinary test and sleep, with interval
\* and deadline unchanged, and a token answered to a later poll is returned.
C16_SlowDownKeepsPolling == [][C16_Step]_vars

\* slow_down, authorization_pending, token, inside the expires_in window
C16_Witness ==
    /\ device.responses = <<"slow_down", "authorization_pending", "token">>
    /\ device.pc = "copilotToken"
    /\ now < device.deadline
    /\ device.waited = 3 * device.intervalMs + 5000

\* C17 -- expired_token, access_denied and every unrecognized error end the
\* polling at once: the login has failed with the error that corresponds to
\* the response and carries the provider's description, no further request
\* is sent, and no credential is saved.
C17_TerminalErrors ==
    LastResponse(device) \in TerminalErrors =>
        /\ device.pc = "failed"
        /\ device.error.kind =
              IF LastResponse(device) = "expired_token" THEN "device_code_expired"
              ELSE IF LastResponse(device) = "access_denied" THEN "authorization_denied"
              ELSE "oauth_error"
        /\ device.error.description = device.lastData.error_description
        /\ authStore["copilot"] = NoToken

\* C18 -- n authorization_pending responses before the token cost n
\* interval waits: when the token is returned after pending responses only,
\* the total wait is (number of pending responses) * interval.
C18_PendingCostsOneWaitEach ==
    LET n == Len(device.responses) - 1
    IN  ( /\ LastResponse(device) = "token"
          /\ \A i \in 1..n : device.responses[i] = "authorization_pending" )
        => device.waited = n * device.intervalMs

Polling == device.pc \in {"sleeping", "fetching", "slowDown"}
PollEnded == device.pc \in {"copilotToken", "saving", "done", "failed"}
Responded(kind) == \E i \in 1..Len(device.responses) : device.responses[i] = kind

\* C19 -- polling always terminates: a poll in progress eventually returns
\* or throws; a new round is started only while now < deadline; and when no
\* token and no terminal error was answered it ends with the timeout error,
\* with the deadline exhausted.
C19_PollingTerminates ==
    /\ Polling ~> PollEnded
    /\ [](device.pc = "sleeping" => now < device.deadline)
    /\ []((device.pc = "failed" /\ LastResponse(device) \notin TerminalErrors
                                /\ ~Responded("token"))
            => /\ device.error.kind = "timeout"
               /\ now >= device.deadline)

C19_Witness ==
    /\ device.pc = "failed"
    /\ device.error.kind = "timeout"
    /\ Responded("authorization_pending")
    /\ Responded("slow_down")
    /\ Responded("empty")

\* ========================================================= store: properties
EntriesFor(store, p) == {e \in listTokens(store) : e.provider = p}

C20_AtMostOnePerProvider ==
    \A p \in Providers :
        /\ Cardinality(EntriesFor(authStore, p)) <= 1
        /\ \A t \in StoreOps :
              (storeOps[t].pc = "done" /\ storeOps[t].op = "list")
                  => Cardinality({e \in storeOps[t].result : e.provider = p}) <= 1

C20_SaveStep(t) ==
    (storeOps[t].pc = "write" /\ storeOps[t].op = "save" /\ storeOps'[t].pc = "done")
    => LET p == storeOps[t].provider
       IN /\ getToken(authStore', p) = storeOps[t].token
          /\ EntriesFor(authStore', p) = {[provider |-> p, token |-> storeOps[t].token]}

\* C20 -- single credential: the store and every listing hold at most one
\* entry per provider, and when a save for P returns, get(P) is the saved
\* credential and the listing has exactly one entry for P, the saved one,
\* whatever was stored for P before.
C20_SingleCredential ==
    /\ []C20_AtMostOnePerProvider
    /\ [][\A t \in StoreOps : C20_SaveStep(t)]_vars

\* save(P, c2) after save(P, c1) returned: only c2 is left
C20_Witness ==
    \E t, u \in StoreOps :
        /\ storeOps[t].pc = "done" /\ storeOps[t].op = "save"
        /\ storeOps[u].pc = "done" /\ storeOps[u].op = "save"
        /\ storeOps[t].provider = storeOps[u].provider
        /\ storeOps[t].token # storeOps[u].token
        /\ storeOps[u].store[storeOps[u].provider] = storeOps[t].token
        /\ getToken(authStore, storeOps[u].provider) = storeOps[u].token
        /\ Cardinality(EntriesFor(authStore, storeOps[u].provider)) = 1

\* a direct store call has returned
Completed(t) == storeOps[t].pc = "done"

\* C21 -- once any store operation (get, list, save, delete) has completed,
\* whatever state the file was first found in, auth.json exists and its mode
\* is owner read/write only.
C21_FileOwnerOnlyAfterEveryOp ==
    (\E t \in StoreOps : Completed(t))
        => (authFile.exists /\ authFile.mode = OwnerOnly)

\* C22 -- get(P) and list() on a missing or unparsable auth.json return none /
\* an empty list and never raise; on a missing file the step creates the
\* directory and an empty auth.json with owner-only mode.
C22_ReadStep(t) ==
    ( /\ storeOps[t].pc = "idle" /\ storeOps'[t].pc = "done"
      /\ storeOps'[t].op \in {"get", "list"}
      /\ (~authFile.exists \/ ~authFile.parsable) )
    => /\ ~storeOps'[t].raised
       /\ storeOps'[t].result = IF storeOps'[t].op = "get" THEN NoToken ELSE {}
       /\ ~authFile.exists =>
             (authFile' = SecureFile /\ authStore' = EmptyStore)
       /\ authFile.exists => UNCHANGED <<authFile, authStore>>

StoredIn(file, content, p) ==
    file.exists /\ file.parsable /\ content[p] # NoToken
Stored(p) == StoredIn(authFile, authStore, p)

\* the step in which delete(P) reads the store
C23_DeleteReadStep(t) ==
    (storeOps[t].pc = "idle" /\ storeOps'[t].op = "delete")
    => LET p == storeOps'[t].provider
       IN IF Stored(p)
          THEN storeOps'[t].pc = "write" /\ UNCHANGED <<authFile, authStore>>
          ELSE /\ storeOps'[t].pc = "done" /\ storeOps'[t].result = FALSE
               /\ authFile.exists => UNCHANGED <<authFile, authStore>>
               /\ ~StoredIn(authFile', authStore', p)

\* the step in which delete(P) writes the store and returns
C23_DeleteWriteStep(t) ==
    (storeOps[t].pc = "write" /\ storeOps[t].op = "delete" /\ storeOps'[t].pc = "done")
    => /\ storeOps'[t].result = TRUE
       /\ ~StoredIn(authFile', authStore', storeOps[t].provider)

\* a get(P) that starts while no credential for P is stored
C23_GetStep(t) ==
    ( /\ storeOps[t].pc = "idle" /\ storeOps'[t].op = "get"
      /\ ~Stored(storeOps'[t].provider) )
    => (storeOps'[t].pc = "done" /\ storeOps'[t].result = NoToken)

C24_RefreshSaveStep(a) ==
    ( /\ a \in 1..Len(refreshes)
      /\ refreshes[a].status = "saving" /\ refreshes'[a].status = "saved"
      /\ \E l \in Logins :
            /\ logins[l].pc = "done" /\ logins[l].provider = refreshes[a].provider
            /\ authStore[refreshes[a].provider] = logins[l].token
            /\ refreshes[a].token # logins[l].token )
    => authStore'[refreshes[a].provider] = authStore[refreshes[a].provider]

\* C24 -- credential writes by logins and refreshes for one provider are
\* serialized: a refresh that read the provider's credential before a login
\* for it completed never writes its result over the credential that login
\* saved.
C24_RefreshNeverOverwritesLogin ==
    [][\A a \in Callers : C24_RefreshSaveStep(a)]_vars

\* C26 -- every outbound token-endpoint call is bounded by a fixed ceiling:
\* with a token endpoint that never responds, a device login whose poll
\* request is outstanding (likewise a code exchange or a refresh) does not
\* stay pending forever; it eventually ends.
C26_SilentEndpointNeverHangs == (device.pc = "fetching") ~> PollEnded

\* ======================================================= Copilot: properties
OverlapCopilot(c, d) ==
    c \in copilotCalls[d].concurrent \/ d \in copilotCalls[c].concurrent

\* C25 -- single flight for providers with their own refresh path: two
\* overlapping getCopilotAccessToken calls (likewise getAntigravityAccessToken)
\* on an expired credential send at most one service-token request between
\* them and both return the same new access value.
C25_ProviderSingleFlight ==
    \A c, d \in Callers :
        (c # d /\ OverlapCopilot(c, d))
        => /\ ~(copilotCalls[c].requested /\ copilotCalls[d].requested)
           /\ ( /\ copilotCalls[c].pc = "done" /\ copilotCalls[d].pc = "done"
                /\ copilotCalls[c].result.kind = "token"
                /\ copilotCalls[d].result.kind = "token"
                /\ isTokenExpired(copilotCalls[c].token, now)
                /\ isTokenExpired(copilotCalls[d].token, now) )
              => copilotCalls[c].result = copilotCalls[d].result

\* the step in which the device login saves its credential
C27_LoginSaveStep ==
    (device.pc = "saving" /\ device'.pc = "done")
    => LET stored == authStore'["copilot"]
       IN /\ stored.type = "oauth"
          /\ stored.access = CopilotApiToken
          /\ stored.refresh = device.lastData.access_token
          /\ stored.expires = CopilotExpiresAt * 1000

\* the step in which a getCopilotAccessToken call saves a new service token
C27_RefreshSaveStep(c) ==
    (copilotCalls[c].pc = "saving" /\ copilotCalls'[c].pc = "done")
    => LET call == copilotCalls[c]
           stored == authStore'["copilot"]
       IN /\ call.authorization = call.token.refresh
          /\ stored.access = call.response.token
          /\ stored.expires = call.response.expires_at * 1000
          /\ stored.refresh = call.token.refresh
          /\ copilotCalls'[c].result = TokenResult(stored.access)

\* C27 -- after a device-code (Copilot) login the stored credential's access
\* is the service token and its refresh is the OAuth token of the device
\* grant; every later refresh derives a new service token from the stored
\* OAuth token, updates access and expires (expires_at in seconds * 1000) and
\* leaves the stored refresh value as it was.
C27_ServiceTokenCached ==
    [][C27_LoginSaveStep /\ \A c \in Callers : C27_RefreshSaveStep(c)]_vars

\* a device login has saved its credential and a call has replaced an expired
\* service token, the GitHub token still being the stored refresh value
C27_Witness ==
    \E c \in Callers :
        /\ copilotCalls[c].pc = "done" /\ copilotCalls[c].requested
        /\ copilotCalls[c].result = TokenResult(IssuedServiceToken(c))
        /\ copilotCalls[c].authorization = GithubToken
        /\ authStore["copilot"] =
              OAuthToken(IssuedServiceToken(c), GithubToken,
                         CopilotExpiresAt * 1000, 0)
        /\ device.pc = "done"

\* =================================================== Antigravity: properties
\* the step in which getAntigravityAccessToken saves the refreshed credential
C28_SaveStep ==
    (AccessCall.pc = "saving" /\ antigravityCalls'.access.pc = "done")
    => LET call == AccessCall
           stored == authStore'["antigravity"]
       IN /\ stored.type = "oauth"
          /\ stored.access = call.newTokens.access_token
          /\ stored.refresh =
                pack(IF call.newTokens.refresh_token # Empty
                     THEN call.newTokens.refresh_token
                     ELSE call.parts.refreshToken,
                     IF call.discovered # Empty THEN call.discovered
                     ELSE call.parts.projectId)
          /\ stored.expires = call.updatedAt + call.newTokens.expires_in * 1000
          /\ stored.accountId = call.token.accountId
          /\ antigravityCalls'.access.result = TokenResult(stored.access)

\* C28 -- on an Antigravity refresh the stored credential becomes access = the
\* new access token, refresh = pack(the newly issued refresh token if any,
\* else the previous one; the freshly discovered project id, or the previous
\* one when discovery yields none), expires = now + expires_in * 1000, and the
\* returned token equals the stored access.
C28_AntigravityRefresh == [][C28_SaveStep]_vars

\* a refresh without a new refresh token whose discovery found a project other
\* than the stored one has been saved
C28_Witness ==
    /\ AccessCall.pc = "done" /\ AccessCall.result = TokenResult(AntigravityNewAccess)
    /\ AccessCall.newTokens.refresh_token = Empty
    /\ AccessCall.parts = [refreshToken |-> <<"a">>, projectId |-> <<"a">>]
    /\ AccessCall.token.refresh = <<"a", "|", "a">>
    /\ AccessCall.discovered = <<"b">>
    /\ authStore["antigravity"].refresh = <<"a", "|", "b">>

\* getAntigravityProjectId has returned for a credential whose refresh string
\* is pack(r, p)
ProjectIdReturnedFor(r, p) ==
    /\ antigravityCalls.projectId.pc = "done"
    /\ antigravityCalls.projectId.token.type = "oauth"
    /\ antigravityCalls.projectId.token.refresh = pack(r, p)

RoundTrip(r, p) ==
    ProjectIdReturnedFor(r, p)
    => /\ parseRefreshParts(antigravityCalls.projectId.token.refresh) =
             [refreshToken |-> r, projectId |-> p]
       /\ antigravityCalls.projectId.result = p

\* C29 (as stated) -- for every refresh token r without a pipe and every
\* project id p, the empty one included, unpacking pack(r, p) yields (r, p)
\* and getAntigravityProjectId returns p.
C29_RoundTripAsStated ==
    \A r \in LoginRefreshTokens, p \in Strings : RoundTrip(r, p)

\* C29 -- pack/unpack round trip: for every refresh token r and every project
\* id p, the empty one included, neither containing a pipe, unpacking
\* pack(r, p) yields (r, p) and getAntigravityProjectId returns p after a
\* login that stored pack(r, p).
C29_RoundTrip ==
    \A r \in LoginRefreshTokens, p \in Strings : ~HasPipe(p) => RoundTrip(r, p)

\* getAntigravityProjectId has returned the project of a stored "a|b", or the
\* empty project of a stored "a|"
C29_Witness ==
    \/ ProjectIdReturnedFor(<<"a">>, <<"b">>)
          /\ antigravityCalls.projectId.result = <<"b">>
    \/ ProjectIdReturnedFor(<<"a">>, Empty)
          /\ antigravityCalls.projectId.result = Empty

\* the endpoints contacted so far, in order, each after the failure of all
\* the ones before it
C30_InOrder ==
    \A i \in 1..Len(AccessCall.contacted) :
        /\ AccessCall.contacted[i].endpoint = i
        /\ i < Len(AccessCall.contacted) => AccessCall.contacted[i].kind # "project"

\* the result of a finished discovery
C30_Result ==
    AccessCall.pc \in {"saving", "done"} /\ AccessCall.contacted # <<>>
    => LET last == AccessCall.contacted[Len(AccessCall.contacted)]
       IN IF last.kind = "project" THEN AccessCall.discovered = last.id
          ELSE /\ AccessCall.discovered = Empty
               /\ Len(AccessCall.contacted) = NumLoadEndpoints

\* C30 -- project discovery contacts the load endpoints strictly in the fixed
\* order: endpoint i only after every endpoint before it failed; the result is
\* the project id of the first endpoint that yields one, no endpoint is
\* contacted after that, and the default is returned only when all failed.
C30_DiscoveryOrder ==
    /\ [](C30_InOrder /\ C30_Result)
    /\ [][AccessCall.pc # "discovering"
            => antigravityCalls'.access.contacted = AccessCall.contacted]_vars

\* two endpoints failed, the third yielded the project and the fourth was
\* never contacted
C30_Witness ==
    /\ AccessCall.pc = "done"
    /\ Len(AccessCall.contacted) = 3
    /\ AccessCall.contacted[1].kind = "status"
    /\ AccessCall.contacted[2].kind = "exception"
    /\ AccessCall.contacted[3].kind = "project"
    /\ AccessCall.discovered = AccessCall.contacted[3].id

\* ========================================================= Codex: properties
\* the account id an identity token carries: the root-level claim, else the
\* nested one, 0 when it carries none
CarriedAccountId(idToken) ==
    IF ~idToken.present \/ ~idToken.wellFormed THEN 0
    ELSE IF idToken.root # 0 THEN idToken.root
    ELSE idToken.nested

\* the mapping getCodexExtraHeaders owes for the login whose credential, or a
\* refreshed successor of it, is stored
OwedHeaders(l) ==
    LET id == CarriedAccountId(logins[l].tokens.id_token)
    IN IF id # 0 THEN {<<AccountIdHeader, id>>} ELSE {}

\* C31 -- if the identity token returned at Codex login carries an account id
\* (the root-level claim, else the nested one; the root-level claim wins), then
\* after the login and after any number of refreshes that follow it
\* getCodexExtraHeaders returns the account-id header with exactly that id;
\* with no account id stored it returns the empty mapping.
C31_AccountIdHeader ==
    \A t \in StoreOps :
        (storeOps[t].pc = "done" /\ storeOps[t].op = "headers")
        => IF storeOps[t].token.type = "none" THEN storeOps[t].result = {}
           ELSE \A l \in FirstLogin : storeOps[t].result = OwedHeaders(l)

\* the login's identity token carried both claims, the credential was
\* refreshed, and getCodexExtraHeaders then returned the root-level id
C31_Witness ==
    \E t \in StoreOps, a \in Callers, l \in FirstLogin :
        /\ storeOps[t].pc = "done" /\ storeOps[t].op = "headers"
        /\ logins[l].pc = "done"
        /\ logins[l].tokens.id_token.root = RootAccountId
        /\ logins[l].tokens.id_token.nested = NestedAccountId
        /\ storeOps[t].token.access = IssuedAccess(a)
        /\ storeOps[t].result = {<<AccountIdHeader, RootAccountId>>}

\* ======================================================== failure messages
\* A message is the sequence of its literal pieces and interpolated values.
\* getOAuthAccessToken's three throws (tokenRefresh.ts)
getOAuthAccessTokenMessage(error, providerName) ==
    IF error = "NotAuthenticated"
    THEN <<"Not authenticated with", providerName,
           "Run ccr auth login", providerName, "first">>
    ELSE IF error = "Expired"
    THEN <<"Token expired for", providerName,
           "Run ccr auth login", providerName, "again">>
    ELSE <<"Failed to refresh token for", providerName,
           "Run ccr auth login", providerName, "again">>

\* the rejections of the callback handler and the listen error of
\* startAuthCodeFlow (authorizationCode.ts)
authCodeFlowMessage(error, errorDesc, port) ==
    IF error = "oauth_error" THEN <<"OAuth error:", errorDesc>>
    ELSE IF error = "state_mismatch" THEN <<"OAuth state mismatch">>
    ELSE IF error = "missing_code" THEN <<"No authorization code received">>
    ELSE <<"Port", port, "is already in use. A previous login flow may still be active.",
           "Try stopping the other process first, or run: lsof -ti:", port,
           "| xargs kill">>

\* the throws of pollForDeviceToken (deviceCode.ts)
pollForDeviceTokenMessage(error) ==
    IF error.kind = "device_code_expired"
    THEN <<"Device code expired. Please try again.">>
    ELSE IF error.kind = "authorization_denied"
    THEN <<"Authorization denied by user.">>
    ELSE IF error.kind = "timeout"
    THEN <<"Device code polling timed out.">>
    ELSE <<"OAuth error:", error.code, "-", error.description>>

Names(message, provider) == \E i \in DOMAIN message : message[i] = provider
InstructsLogin(message, provider) ==
    \E i \in DOMAIN message :
        /\ i + 1 \in DOMAIN message
        /\ message[i] = "Run ccr auth login"
        /\ message[i + 1] = provider

CallbackPort == 1455
DeviceProvider == "copilot"
PollFailures == {"device_code_expired", "authorization_denied", "timeout"}

\* C32 -- every terminal failure (not authenticated, expired, refresh failed,
\* callback rejected, port in use, device code expired or denied, poll
\* timeout) carries a message naming the affected provider, and where
\* re-authentication is the only remedy the message instructs the caller to
\* re-run login for that provider.
C32_MessagesNameProvider ==
    /\ \A c \in Callers :
          (callers[c].pc = "done" /\ callers[c].result.kind = "error")
          => LET m == getOAuthAccessTokenMessage(callers[c].result.error,
                                                 callers[c].provider)
             IN Names(m, callers[c].provider)
                /\ InstructsLogin(m, callers[c].provider)
    /\ \A l \in Logins :
          (logins[l].pc = "failed"
           /\ logins[l].error \in CallbackRejectedReasons \cup {"PortInUse"})
          => Names(authCodeFlowMessage(logins[l].error, "denied", CallbackPort),
                   logins[l].provider)
    /\ (device.pc = "failed" /\ device.error.kind \in PollFailures)
       => Names(pollForDeviceTokenMessage(device.error), DeviceProvider)

\* =============================================== flow: exchanges and writes
\* the logins whose waitForAuth has sent the code exchange for flow f
Exchanged(f) == {l \in LoginsOf(f) : logins[l].code # 0}
\* the logins whose waitForAuth has written the credential
Wrote(f) == {l \in LoginsOf(f) : logins[l].pc = "done"}

\* C33 -- one accepted callback leads to at most one code-exchange request
\* and at most one credential write for the provider, also when the flow was
\* reused and several callers each hold a handle awaiting its result.
C33_OneExchangePerCallback ==
    \A f \in FlowIds :
        /\ Cardinality(Exchanged(f)) <= 1
        /\ Cardinality(Wrote(f)) <= 1

\* a callback reaches flow f after its pending result was settled
LateCallback(f) ==
    /\ flows[f].promise # "pending"
    /\ \E e \in CallbackErrors, st \in CallbackStates, code \in CallbackCodes :
          Callback(f, e, st, code)

NextLogout ==
    \/ \E c \in FirstCaller, p \in FlowProviders : CallGetAccessToken(c, p, TRUE)
    \/ \E c \in FirstCaller : ResumeAfterGetToken(c)
    \/ \E a \in FirstCaller : \E resp \in RefreshResponses(a) : RefreshResponds(a, resp)
    \/ \E a \in FirstCaller : SaveRefreshedToken(a)
    \/ \E a \in FirstCaller : RefreshFulfilled(a)
    \/ \E a \in FirstCaller, kind \in RefreshFailureKinds : RefreshFails(a, kind)
    \/ \E c \in FirstCaller : ReturnFromRefresh(c)
    \/ Tick
    \/ \E l \in FirstLogin, p \in FlowProviders : StartAuthCodeLogin(l, p)
    \/ \E l \in FirstLogin : ListenResumes(l)
    \/ \E f \in FirstLogin, st \in CallbackStates, code \in CallbackCodes :
          Callback(f, 0, st, code)
    \/ \E l \in FirstLogin : \E resp \in ExchangeResponses(l) : ExchangeResponds(l, resp)
    \/ \E l \in FirstLogin, a \in HookAccountIds : HookReturns(l, a)
    \/ \E l \in FirstLogin : SaveLoginToken(l)
    \/ \E t \in StoreOps, p \in FlowProviders : CallDeleteToken(t, p)
    \/ \E t \in StoreOps : WriteStore(t)

SpecLogout == InitRefresh /\ [][NextLogout]_vars

\* a logout of provider p has returned success
LoggedOut(p) ==
    \E t \in StoreOps :
        /\ storeOps[t].pc = "done" /\ storeOps[t].op = "delete"
        /\ storeOps[t].provider = p /\ storeOps[t].result = TRUE

\* the step is the credential write of a completing login for p
LoginCompletes(p) ==
    \E l \in Logins :
        /\ logins[l].provider = p
        /\ logins[l].pc = "saving" /\ logins'[l].pc = "done"

\* C35 -- after logout(P) has returned, no credential for P is stored again
\* unless a new login completes; a refresh in flight at the time of the logout
\* does not re-create it.
C35_LogoutIsFinal ==
    [][\A p \in FlowProviders :
          (LoggedOut(p) /\ authStore[p] = NoToken /\ authStore'[p] # NoToken)
          => LoginCompletes(p)]_vars

\* ===================================================== store: other providers
\* the credential auth.json holds for q, as readStore sees it
CredentialIn(file, content, q) ==
    IF file.exists /\ file.parsable THEN content[q] ELSE NoToken

\* C36 -- save(P, c) and delete(P) leave the stored credential of every other
\* provider Q unchanged, also when store operations for different providers
\* overlap: no other provider's credential is lost or reverted to an older
\* value.
C36_OtherProvidersUntouched ==
    [][\A t \in StoreOps :
          (storeOps[t].pc = "write" /\ storeOps'[t].pc = "done")
          => \A q \in Providers \ {storeOps[t].provider} :
                CredentialIn(authFile', authStore', q)
                   = CredentialIn(authFile, authStore, q)]_vars

\* ================================================= flow: verifier and state
\* C37 -- for every handle returned by an authorization-code login start,
\* including one that reused an existing ActiveFlow, the code_verifier sent in
\* the token exchange is the verifier whose S256 challenge appears in the
\* authorization URL returned by that same call, and the state accepted by
\* the callback handler is the state embedded in that URL.
C37_VerifierMatchesUrl ==
    \A l \in Logins :
        logins[l].code # 0
        => /\ Challenge(logins[l].verifier) = logins[l].authUrl[2]
           /\ flows[logins[l].flow].promise = "resolved"
           /\ flows[logins[l].flow].state = logins[l].authUrl[1]

\* a login that reused the flow of an earlier call has sent its exchange
C37_Witness ==
    \E l \in Logins :
        /\ logins[l].reused
        /\ logins[l].code # 0
        /\ logins[l].pkce # logins[l].verifier

\* ============================================== CLI login through the server
\* loginWithAuthCode (cli auth command): tryServerLogin posts to
\* /api/auth/login/:provider, and with the authUrl it got back pollAuthStatus
\* asks /api/auth/status/:provider until the answer is "authenticated" or
\* "active"; printAuthSuccess follows.
PollAuthTimeoutMs == 300 * 1000

\* GET /api/auth/status/:provider on the token getToken returned
authStatus(token, nowMs) ==
    IF token.type = "none" THEN "not_authenticated"
    ELSE IF token.type = "api" THEN "active"
    ELSE IF isTokenExpired(token, nowMs) THEN "expired"
    ELSE "active"

\* `data.status === "authenticated" || data.status === "active"`
pollAccepts(status) == status \in {"authenticated", "active"}

\* tryServerLogin sends its POST
CliTryServerLogin(l) ==
    /\ logins[l].pc = "idle"
    /\ logins[l].cli.pc = "none"
    /\ logins' = [logins EXCEPT ![l] = [@ EXCEPT !.cli.pc = "requesting"]]
    /\ UNCHANGED <<now, authStore, refreshVars, deviceVars, storeVars, providerVars,
                   activeFlows, flows, foreignListener>>

\* the login endpoint answered with the authUrl: printBrowserInstructions,
\* then pollAuthStatus takes its start time
CliReceivesUrl(l) ==
    /\ logins[l].cli.pc = "requesting"
    /\ logins[l].pc \notin {"idle", "listening"}
    /\ logins[l].authUrl # <<0, 0>>
    /\ logins' = [logins EXCEPT ![l] =
          [@ EXCEPT !.cli = [pc |-> "polling", start |-> now]]]
    /\ UNCHANGED <<now, authStore, refreshVars, deviceVars, storeVars, providerVars,
                   activeFlows, flows, foreignListener>>

\* one round of pollAuthStatus within the timeout whose answer is accepted:
\* pollAuthStatus returns and printAuthSuccess reports the login
CliPollSucceeds(l) ==
    /\ logins[l].cli.pc = "polling"
    /\ now - logins[l].cli.start < PollAuthTimeoutMs
    /\ LET r == readStore(authFile, authStore)
       IN pollAccepts(authStatus(getToken(r.store, logins[l].provider), now))
    /\ AfterEnsure
    /\ logins' = [logins EXCEPT ![l] = [@ EXCEPT !.cli.pc = "success"]]
    /\ UNCHANGED <<now, refreshVars, deviceVars, storeOps, providerVars,
                   activeFlows, flows, foreignListener>>

\* the loop test fails: "Authentication timed out. Please try again."
CliPollTimesOut(l) ==
    /\ logins[l].cli.pc = "polling"
    /\ now - logins[l].cli.start >= PollAuthTimeoutMs
    /\ logins' = [logins EXCEPT ![l] = [@ EXCEPT !.cli.pc = "timedOut"]]
    /\ UNCHANGED <<now, authStore, refreshVars, deviceVars, storeVars, providerVars,
                   activeFlows, flows, foreignListener>>

\* POST /api/auth/login/:provider reaches the server: startCodexLogin
ServerStartsLogin(l, p) ==
    /\ logins[l].cli.pc = "requesting"
    /\ StartAuthCodeLogin(l, p)

\* one CLI login delegated to the server, which may already hold a credential
NextCli ==
    \/ \E l \in FirstLogin : CliTryServerLogin(l)
    \/ \E l \in FirstLogin, p \in FlowProviders : ServerStartsLogin(l, p)
    \/ \E l \in FirstLogin : ListenResumes(l)
    \/ \E f \in FirstLogin, st \in CallbackStates, code \in CallbackCodes :
          Callback(f, 0, st, code)
    \/ \E p \in FlowProviders : TimeoutFires(p)
    \/ \E l \in FirstLogin : \E resp \in ExchangeResponses(l) : ExchangeResponds(l, resp)
    \/ \E l \in FirstLogin : ExchangeFails(l)
    \/ \E l \in FirstLogin, a \in HookAccountIds : HookReturns(l, a)
    \/ \E l \in FirstLogin : SaveLoginToken(l)
    \/ \E l \in FirstLogin : CliReceivesUrl(l)
    \/ \E l \in FirstLogin : CliPollSucceeds(l)
    \/ \E l \in FirstLogin : CliPollTimesOut(l)
    \/ FlowTick
    \/ Tick

SpecCli == InitRefresh /\ [][NextCli]_vars

\* C38 -- a CLI that delegated the login to the server reports success only
\* after the credential produced by that login has been saved; a credential
\* already stored and active does not make it report success while the new
\* flow still awaits its callback.
C38_SuccessAfterSave ==
    \A l \in Logins :
        logins[l].cli.pc = "success" => logins[l].pc = "done"

\* ================================================= polling: the last request
\* C39 -- pollForDeviceToken never sends a poll request once the time elapsed
\* since it was called exceeds expiresIn, also after the last interval wait
\* or a slow_down delay.
C39_NoPollAfterDeadline ==
    device.pc = "fetching" => now <= device.deadline
====
